---- MODULE Spec2Model ----
(***************************************************************************)
(* Verification model of the field-dependency update propagation of the   *)
(* spreadsheet database: the path based update statement collector, the   *)
(* field update collector built on it, and the row store it updates.      *)
(***************************************************************************)
EXTENDS Integers, Sequences, FiniteSets, TLC

(***************************************************************************)
(* Bounds of the model.                                                    *)
(***************************************************************************)
MaxRows == 2
MaxAdds == 2
MaxPathLen == 2

(***************************************************************************)
(* The schema: three tables, two pairs of reciprocal link row fields      *)
(* (11 <-> 12 between tables 1 and 2, 13 <-> 14 between tables 2 and 3)   *)
(* five computed fields (1 and 2 in table 1, 3 and 4 in table 2, 5 in     *)
(* table 3) and two plain data fields (21 in table 2, 22 in table 1).     *)
(***************************************************************************)
Tables == {1, 2, 3}
LinkRowFields == {11, 12, 13, 14}
ComputedFields == {1, 2, 3, 4, 5}
DataFields == {21, 22}
CellFields == ComputedFields \cup DataFields
Fields == CellFields \cup LinkRowFields
RowIds == 1..MaxRows
NoField == 0

\* Field.table: the table owning the field.
FieldTable(f) ==
    CASE f \in {1, 2, 11, 22} -> 1
      [] f \in {3, 4, 12, 13, 16, 21} -> 2
      [] OTHER -> 3

\* LinkRowField.link_row_table: the table the link row field points to.
LinkRowTable(l) ==
    CASE l = 11 -> 2
      [] l = 12 -> 1
      [] l \in {13, 16} -> 3
      [] OTHER -> 2

\* LinkRowField.link_row_related_field_id: the reciprocal field.
LinkRowRelatedField(l) ==
    CASE l = 11 -> 12
      [] l = 12 -> 11
      [] l = 13 -> 14
      [] l = 15 -> 16
      [] l = 16 -> 15
      [] OTHER -> 13

\* Field.db_column, "field_<id>": one column per field id.
DbColumn(f) == <<"field", f>>

\* The field a column belongs to.
ColumnField(c) == c[2]

(***************************************************************************)
(* Values and update expressions.                                          *)
(***************************************************************************)
Null == [t |-> "null"]
Num(n) == [t |-> "num", v |-> n]
Arr(s) == [t |-> "arr", v |-> s]

Const(n) == [kind |-> "const", v |-> n, via |-> NoField, target |-> NoField]
Lookup(l, f) == [kind |-> "lookup", v |-> 0, via |-> l, target |-> f]
SumLookup(l, f) == [kind |-> "sum", v |-> 0, via |-> l, target |-> f]
\* The sum over link a added to the sum over link b.
SumOfLookups(a, b, f) ==
    [kind |-> "sums", v |-> 0, via |-> a, via2 |-> b, target |-> f]

(***************************************************************************)
(* The row store: the many to many relation of every pair of reciprocal   *)
(* link row fields and the cell of every row of every computed field.     *)
(***************************************************************************)
\* The field under which a pair of reciprocal link fields is stored.
Through(l) == IF l < LinkRowRelatedField(l) THEN l ELSE LinkRowRelatedField(l)

\* The rows of l's link_row_table that row r of l's table is linked to.
Linked(db, l, r) ==
    IF l = Through(l)
    THEN {p[2] : p \in {q \in db.links[l] : q[1] = r}}
    ELSE {p[1] : p \in {q \in db.links[Through(l)] : q[2] = r}}

\* The elements of a finite set of integers in ascending order.
RECURSIVE SortedSeq(_)
SortedSeq(S) ==
    IF S = {} THEN <<>>
    ELSE LET m == CHOOSE x \in S : \A y \in S : x <= y
         IN <<m>> \o SortedSeq(S \ {m})

RECURSIVE SumOf(_, _)
SumOf(f, S) ==
    IF S = {} THEN 0
    ELSE LET x == CHOOSE y \in S : TRUE IN f[x] + SumOf(f, S \ {x})

\* The number held by a cell (0 for anything that is not a number).
NumberOf(val) == IF val.t = "num" THEN val.v ELSE 0

\* The array of {id, value} a lookup of field target yields over the rows
\* given in order.
LookupValue(db, target, rows) ==
    Arr([i \in 1..Len(rows) |-> [id |-> rows[i], value |-> db.cells[target][rows[i]]]])

\* The sum of field target over rows, null when there are none.
SumValue(db, target, rows) ==
    IF rows = {} THEN Null
    ELSE Num(SumOf([x \in rows |-> NumberOf(db.cells[target][x])], rows))

\* The value an update expression takes on row r: a constant, the array of
\* {id, value} of the rows linked through e.via (ordered by row), the sum
\* over them, or the sum over them added to the sum over the rows linked
\* through e.via2.
Evaluate(db, e, r) ==
    CASE e.kind = "const" -> Num(e.v)
      [] e.kind = "lookup" -> LookupValue(db, e.target, SortedSeq(Linked(db, e.via, r)))
      [] e.kind = "sums" ->
             Num(NumberOf(SumValue(db, e.target, Linked(db, e.via, r)))
                 + NumberOf(SumValue(db, e.target, Linked(db, e.via2, r))))
      [] OTHER -> SumValue(db, e.target, Linked(db, e.via, r))

(***************************************************************************)
(* Query filters.  A Q object is a set of clauses joined by OR; the empty  *)
(* Q() restricts nothing.  A clause names the chain of link columns to     *)
(* join through, the lookup on the id at the end of the chain ("exact" or  *)
(* "in") and the ids given.                                                *)
(***************************************************************************)
EmptyQ == {}
Q(path, lookup, ids) == {[path |-> path, lookup |-> lookup, ids |-> ids]}
QOr(a, b) == a \cup b

\* The rows reached from row r by joining through the link columns of path.
RECURSIVE JoinedRows(_, _, _)
JoinedRows(db, path, r) ==
    IF path = <<>> THEN {r}
    ELSE UNION {JoinedRows(db, Tail(path), r2) :
                  r2 \in Linked(db, ColumnField(Head(path)), r)}

\* The rows a queryset filtered by q holds.
FilteredRows(db, q) ==
    IF q = EmptyQ THEN RowIds
    ELSE {r \in RowIds : \E c \in q : JoinedRows(db, c.path, r) \cap c.ids # {}}

\* QuerySet.update(**update_statements): every selected row gets, in every
\* column named, the value of its expression over the rows as they were.
QuerySetUpdate(db, rows, update_statements) ==
    [db EXCEPT !.cells =
        [f \in CellFields |->
            [r \in RowIds |->
                IF r \in rows /\ DbColumn(f) \in DOMAIN update_statements
                THEN Evaluate(db, update_statements[DbColumn(f)], r)
                ELSE db.cells[f][r]]]]

(***************************************************************************)
(* starting_row_id: None, one row id or a list of row ids; and            *)
(* deleted_m2m_rels_per_link_field: None or a dict from link field id to   *)
(* the set of row ids that lost a relationship.                            *)
(***************************************************************************)
StartNone == [kind |-> "none", ids |-> {}]
StartInt(i) == [kind |-> "int", ids |-> {i}]
StartList(S) == [kind |-> "list", ids |-> S]

DeletedNone == [kind |-> "none", map |-> <<>>]
DeletedDict(m) == [kind |-> "dict", map |-> m]

(***************************************************************************)
(* PathBasedUpdateStatementCollector: the tree is the sequence of its      *)
(* nodes in creation order; a node is addressed by the sub_paths keys      *)
(* leading to it from the root.                                            *)
(***************************************************************************)
PathBasedUpdateStatementCollector(key, table, connection_here) ==
    [key |-> key, table |-> table, connection_here |-> connection_here,
     update_statements |-> <<>>]

HasNode(nodes, key) == \E i \in 1..Len(nodes) : nodes[i].key = key
NodeIndex(nodes, key) == CHOOSE i \in 1..Len(nodes) : nodes[i].key = key
NodeAt(nodes, key) == nodes[NodeIndex(nodes, key)]

\* self.sub_paths.values(): the children of a node in insertion order.
SubPaths(nodes, key) ==
    SelectSeq(nodes, LAMBDA n : /\ Len(n.key) = Len(key) + 1
                                /\ SubSeq(n.key, 1, Len(key)) = key)

\* self.update_statements[field.db_column] = update_statement
StoreStatement(nodes, key, field, update_statement) ==
    LET i == NodeIndex(nodes, key)
        old == nodes[i].update_statements
        new == [c \in DOMAIN old \cup {DbColumn(field)} |->
                   IF c = DbColumn(field) THEN update_statement ELSE old[c]]
    IN [nodes EXCEPT ![i].update_statements = new]

\* A collector that never compares the field's table with the node's table.
FieldNotInTable_unchecked(self, field) == FALSE

\* if self.table != field.table: raise InvalidViaPath()
FieldNotInTable(self, field) == self.table # FieldTable(field)

\* A collector that never compares the link's link_row_table with the node's
\* table.
LinkNotFromTable_unchecked(self, next_via_field_link) == FALSE

\* if next_via_field_link.link_row_table != self.table: raise InvalidViaPath()
LinkNotFromTable(self, next_via_field_link) ==
    LinkRowTable(next_via_field_link) # self.table

\* A collector that makes a new node for every hop of every path.
WithSubPath_always_new(nodes, key, next_via_field_link) ==
    Append(nodes,
           PathBasedUpdateStatementCollector(
               Append(key, DbColumn(next_via_field_link)),
               FieldTable(next_via_field_link), next_via_field_link))

\* The node the next link of the path leads to, created when missing.
WithSubPath(nodes, key, next_via_field_link) ==
    LET sub == Append(key, DbColumn(next_via_field_link))
    IN IF HasNode(nodes, sub) THEN nodes
       ELSE Append(nodes,
                   PathBasedUpdateStatementCollector(
                       sub, FieldTable(next_via_field_link), next_via_field_link))

\* add_update_statement on the node at key: the tree afterwards and whether
\* InvalidViaPath was raised ("no", or the comparison that raised it: the
\* field's table or the link's link_row_table against the node's table).
\* Nodes created before the raise stay.
RECURSIVE add_update_statement(_, _, _, _, _)
add_update_statement(nodes, key, field, update_statement, path_from_starting_table) ==
    LET self == NodeAt(nodes, key)
    IN IF path_from_starting_table = <<>>
       THEN IF FieldNotInTable(self, field)
            THEN [nodes |-> nodes, raised |-> "field_table"]
            ELSE [nodes |-> StoreStatement(nodes, key, field, update_statement),
                  raised |-> "no"]
       ELSE LET next_via_field_link == Head(path_from_starting_table)
            IN IF LinkNotFromTable(self, next_via_field_link)
               THEN [nodes |-> nodes, raised |-> "link_row_table"]
               ELSE add_update_statement(
                        WithSubPath(nodes, key, next_via_field_link),
                        Append(key, DbColumn(next_via_field_link)),
                        field, update_statement, Tail(path_from_starting_table))

\* A collector that forgets the rows that lost a relationship.
_include_rows_connected_to_deleted_m2m_relationships_none(deleted, path_to_starting_table) ==
    EmptyQ

\* A collector that looks the deleted relationships up under the link row
\* field next to the node instead of the one next to the starting table.
_include_rows_connected_to_deleted_m2m_relationships_first_hop(deleted, path_to_starting_table) ==
    IF deleted.kind = "none" \/ path_to_starting_table = <<>>
    THEN EmptyQ
    ELSE IF LinkRowRelatedField(path_to_starting_table[1]) \in DOMAIN deleted.map
         THEN Q([i \in 1..(Len(path_to_starting_table) - 1) |->
                    DbColumn(path_to_starting_table[i])],
                "in",
                deleted.map[LinkRowRelatedField(path_to_starting_table[1])])
         ELSE EmptyQ

\* The Q filter forcing the update of the rows that lost a relationship.
_include_rows_connected_to_deleted_m2m_relationships(deleted, path_to_starting_table) ==
    IF deleted.kind = "none" \/ path_to_starting_table = <<>>
    THEN EmptyQ
    ELSE LET link_row_field_in_starting_table ==
                 LinkRowRelatedField(
                     path_to_starting_table[Len(path_to_starting_table)])
             path_to_table_after_starting_table ==
                 [i \in 1..(Len(path_to_starting_table) - 1) |->
                     DbColumn(path_to_starting_table[i])]
         IN IF link_row_field_in_starting_table \in DOMAIN deleted.map
            THEN Q(path_to_table_after_starting_table, "in",
                   deleted.map[link_row_field_in_starting_table])
            ELSE EmptyQ

\* The filter on the rows joining back to the starting row(s).
StartingRowFilter(path_to_starting_table, starting_row_id) ==
    Q([i \in 1..Len(path_to_starting_table) |-> DbColumn(path_to_starting_table[i])],
      IF starting_row_id.kind = "list" THEN "in" ELSE "exact",
      starting_row_id.ids)

\* A collector that never filters the queryset of a bulk update.
UpdateFilter_unfiltered(path_to_starting_table, starting_row_id, deleted) ==
    [all |-> TRUE, q |-> EmptyQ]

\* The queryset filter of one node's bulk update; all |-> TRUE when the
\* queryset is not filtered at all.
UpdateFilter(path_to_starting_table, starting_row_id, deleted) ==
    IF starting_row_id.kind # "none"
    THEN [all |-> FALSE,
          q |-> QOr(StartingRowFilter(path_to_starting_table, starting_row_id),
                    _include_rows_connected_to_deleted_m2m_relationships(
                        deleted, path_to_starting_table))]
    ELSE [all |-> TRUE, q |-> EmptyQ]

\* The record of one bulk UPDATE: the node it was issued for, the filter
\* of its queryset, the rows the filter selected and the columns it sets.
IssuedUpdate(self, path_to_starting_table, filter, rows, update_statements) ==
    [key |-> self.key, table |-> self.table, path |-> path_to_starting_table,
     filter |-> filter, rows |-> rows, update_statements |-> update_statements]

\* The rows of the queryset: all of them unless it was filtered.
QuerySetRows(db, filter) ==
    IF filter.all THEN RowIds ELSE FilteredRows(db, filter.q)

\* A collector that issues one UPDATE for every column of the node.
UpdateEveryColumn(done, self, path_to_starting_table, filter, rows) ==
    LET cols == SortedSeq({ColumnField(c) : c \in DOMAIN self.update_statements})
    IN [db |-> QuerySetUpdate(done.db, rows, self.update_statements),
        issued |-> done.issued \o
            [i \in 1..Len(cols) |->
                IssuedUpdate(self, path_to_starting_table, filter, rows,
                             [c \in {DbColumn(cols[i])} |-> self.update_statements[c]])]]

\* qs.filter(...).update(**self.update_statements) after the updates done so
\* far: the row store afterwards and the updates issued so far.
UpdateFiltered(done, self, path_to_starting_table, filter, rows) ==
    [db |-> QuerySetUpdate(done.db, rows, self.update_statements),
     issued |-> Append(done.issued,
                       IssuedUpdate(self, path_to_starting_table, filter, rows,
                                    self.update_statements))]

\* One node's bulk UPDATE.
_execute_pending_update_statements(done, self, path_to_starting_table, starting_row_id, deleted) ==
    UpdateFiltered(done, self, path_to_starting_table,
                   UpdateFilter(path_to_starting_table, starting_row_id, deleted),
                   QuerySetRows(done.db,
                                UpdateFilter(path_to_starting_table, starting_row_id, deleted)))

\* path_to_starting_table = [self.connection_here] + path_to_starting_table
PathToStartingTable(self, path_to_starting_table) ==
    IF self.connection_here # NoField
    THEN <<self.connection_here>> \o path_to_starting_table
    ELSE path_to_starting_table

RECURSIVE execute_all(_, _, _, _, _, _)
RECURSIVE ExecuteSubPaths(_, _, _, _, _, _)

\* A traversal that runs the sub paths of a node from the last one added to
\* the first.
ExecuteSubPaths_last_first(nodes, sub_paths, done, starting_row_id, path_to_starting_table, deleted) ==
    IF sub_paths = <<>> THEN done
    ELSE ExecuteSubPaths(
             nodes, SubSeq(sub_paths, 1, Len(sub_paths) - 1),
             execute_all(nodes, sub_paths[Len(sub_paths)].key, done,
                         starting_row_id, path_to_starting_table, deleted),
             starting_row_id, path_to_starting_table, deleted)

\* A traversal that runs the sub paths of a node before the node's own update.
execute_all_sub_paths_first(nodes, key, done, starting_row_id, path_to_starting_table, deleted) ==
    _execute_pending_update_statements(
        ExecuteSubPaths(nodes, SubPaths(nodes, key), done, starting_row_id,
                        PathToStartingTable(NodeAt(nodes, key), path_to_starting_table),
                        deleted),
        NodeAt(nodes, key),
        PathToStartingTable(NodeAt(nodes, key), path_to_starting_table),
        starting_row_id, deleted)

\* execute_all on the node at key after the updates done so far (the row
\* store and the bulk updates issued, in the order they were issued): the
\* node's own update, then its sub paths.
execute_all(nodes, key, done, starting_row_id, path_to_starting_table, deleted) ==
    ExecuteSubPaths(
        nodes, SubPaths(nodes, key),
        _execute_pending_update_statements(
            done, NodeAt(nodes, key),
            PathToStartingTable(NodeAt(nodes, key), path_to_starting_table),
            starting_row_id, deleted),
        starting_row_id,
        PathToStartingTable(NodeAt(nodes, key), path_to_starting_table),
        deleted)

\* for sub_path in self.sub_paths.values(): sub_path.execute_all(...)
ExecuteSubPaths(nodes, sub_paths, done, starting_row_id, path_to_starting_table, deleted) ==
    IF sub_paths = <<>> THEN done
    ELSE ExecuteSubPaths(
             nodes, Tail(sub_paths),
             execute_all(nodes, Head(sub_paths).key, done, starting_row_id,
                         path_to_starting_table, deleted),
             starting_row_id, path_to_starting_table, deleted)

\* A database that is sent an UPDATE for every update call.
BulkUpdates_of_every_call(calls) == calls

\* The UPDATE statements the database is sent for the update calls of the
\* log: an update call without any column sends none.
BulkUpdates(calls) ==
    SelectSeq(calls, LAMBDA u : DOMAIN u.update_statements # {})

\* Nothing done yet on row store d.
NothingDone(d) == [db |-> d, issued |-> <<>>]

(***************************************************************************)
(* FieldUpdateCollector.                                                   *)
(***************************************************************************)
\* FieldUpdateCollector.__init__
FieldUpdateCollector(starting_table, starting_row_id, deleted) ==
    [updated_fields_per_table |-> <<>>,
     starting_row_id |-> starting_row_id,
     starting_table |-> starting_table,
     deleted_m2m_rels_per_link_field |-> deleted,
     update_statement_collector |->
         <<PathBasedUpdateStatementCollector(<<>>, starting_table, NoField)>>]

\* A collector that records no field as updated.
RegisterUpdatedField_not_recorded(updated, field) == updated

\* self._updated_fields_per_table[field.table_id][field.id] = field, the
\* dicts keeping the order in which their keys were first inserted.
RegisterUpdatedField(updated, field) ==
    LET t == FieldTable(field)
    IN IF \E i \in 1..Len(updated) : updated[i].table_id = t
       THEN LET i == CHOOSE j \in 1..Len(updated) : updated[j].table_id = t
            IN IF \E k \in 1..Len(updated[i].fields) : updated[i].fields[k] = field
               THEN updated
               ELSE [updated EXCEPT ![i].fields = Append(@, field)]
       ELSE Append(updated, [table_id |-> t, fields |-> <<field>>])

\* add_field_with_pending_update_statement: the collector afterwards and
\* whether InvalidViaPath was raised.
add_field_with_pending_update_statement(c, field, update_statement, via_path_to_starting_table) ==
    LET added == add_update_statement(c.update_statement_collector, <<>>, field,
                                      update_statement, via_path_to_starting_table)
    IN [collector |->
            [c EXCEPT !.updated_fields_per_table = RegisterUpdatedField(@, field),
                      !.update_statement_collector = added.nodes],
        raised |-> added.raised]

\* _for_table(table)
_for_table(c, table) ==
    LET hit == SelectSeq(c.updated_fields_per_table, LAMBDA e : e.table_id = table)
    IN IF hit = <<>> THEN <<>> ELSE hit[1].fields

\* _get_updated_fields_per_table
_get_updated_fields_per_table(c) ==
    [i \in 1..Len(c.updated_fields_per_table) |->
        [field |-> Head(c.updated_fields_per_table[i].fields),
         related_fields |-> Tail(c.updated_fields_per_table[i].fields)]]

\* A collector that also signals the fields of the starting table.
send_additional_field_updated_signals_all_tables(c) ==
    _get_updated_fields_per_table(c)

\* The field_updated signals send_additional_field_updated_signals sends.
send_additional_field_updated_signals(c) ==
    SelectSeq(_get_updated_fields_per_table(c),
              LAMBDA e : FieldTable(e.field) # c.starting_table)

(***************************************************************************)
(* Formula fields.  Table 1 owns the formula fields 1 and 2, the data      *)
(* field 22 and the link row field 11 to table 2, which owns the data      *)
(* field 21.  A field is named by its id; no field is named UnknownName.   *)
(***************************************************************************)
MaxFormulaDepth == 2
MaxFormulaStringLength == 2
MaxOrder == 3

FormulaFields == {1, 2}
SchemaFields == {1, 2, 11, 12, 21, 22}
UnknownName == 99

\* FormulaField.error: None, or what the typer found wrong.
NoError == [kind |-> "", fn |-> "", n |-> 0]
FormulaError(kind, fn, n) == [kind |-> kind, fn |-> fn, n |-> n]
UnknownFieldError(name) ==
    FormulaError("references the deleted or unknown field", "", name)

\* The result of typing: a valid type, or invalid with its error.
ValidType(t) == [formula_type |-> t, error |-> NoError]

\* A typer that marks a formula invalid without saying why.
InvalidType_no_error(error) == [formula_type |-> "invalid", error |-> NoError]

InvalidType(error) == [formula_type |-> "invalid", error |-> error]

\* The untyped syntax tree.  Characters are numbers: 0..9 the digits, 10
\* and up the lower case letters, each upper case letter 100 above its
\* lower case one.
Node(node, fn, name, via, text, args) ==
    [node |-> node, fn |-> fn, name |-> name, via |-> via, text |-> text,
     args |-> args]
StringLiteral(text) == Node("string", "", 0, 0, text, <<>>)
\* A whole number of one digit.
IntLiteral(n) == Node("int", "", 0, 0, <<n>>, <<>>)
\* true and false, as 1 and 0.
BooleanLiteral(b) == Node("boolean", "", 0, 0, <<b>>, <<>>)
FieldReference(name) == Node("field", "", name, 0, <<>>, <<>>)
LookupReference(via, name) == Node("lookup", "", name, via, <<>>, <<>>)
FunctionCall(fn, args) == Node("call", fn, 0, 0, <<>>, args)
\* A formula text the parser rejects.
SyntaxError == Node("syntax_error", "", 0, 0, <<>>, <<>>)
NoFormula == Node("", "", 0, 0, <<>>, <<>>)

\* The greatest of a finite set of naturals, 0 for the empty set.
MaxOf(S) == IF S = {} THEN 0 ELSE CHOOSE x \in S : \A y \in S : y <= x

\* The nesting depth of a syntax tree.
RECURSIVE Depth(_)
Depth(e) == 1 + MaxOf({Depth(e.args[i]) : i \in 1..Len(e.args)})

\* BaserowFunctionDefinition.num_args: whether a function takes n arguments.
\* upper, totext and trim are OneArgumentBaserowFunctions, equal, not_equal,
\* divide and when_empty TwoArgumentBaserowFunctions, regex_replace a
\* ThreeArgumentBaserowFunction, concat takes more than one; date_interval
\* is a OneArgumentBaserowFunction, add and todate take two.
NumArgs(fn, n) ==
    CASE fn \in {"upper", "totext", "trim", "date_interval"} -> n = 1
      [] fn \in {"equal", "not_equal", "divide", "when_empty", "add", "todate"} -> n = 2
      [] fn = "regex_replace" -> n = 3
      [] fn = "concat" -> n > 1
      [] OTHER -> FALSE

\* The argument types a function accepts at position i: upper, trim and
\* regex_replace take text, divide numbers, the others any valid type (the
\* types comparable with a number or a text include both, as 1 = '1' is a
\* valid formula).
ArgTypesAnyValid(fn, i) ==
    {"text", "number", "boolean", "array", "date", "date_interval"}

ArgTypes(fn, i) ==
    CASE fn \in {"upper", "trim", "regex_replace", "todate", "date_interval"} -> {"text"}
      [] fn = "divide" -> {"number"}
      [] OTHER -> {"text", "number", "boolean", "array", "date", "date_interval"}

\* Types that can be added to nothing but themselves.
addable_types_own_type(t) == {t}

\* BaserowFormulaValidType.addable_types of the type named t: a text takes a
\* text or a char, a number a number, a date a date interval, a date
\* interval a date interval or a date, the other types nothing.
addable_types(t) ==
    CASE t = "text" -> {"text", "char"}
      [] t = "number" -> {"number"}
      [] t = "date" -> {"date_interval"}
      [] t = "date_interval" -> {"date_interval", "date"}
      [] OTHER -> {}

\* BaserowAdd.arg_types: the type checker of the second argument of add is
\* given by the type of the first; every other function has the types of
\* its definition.
ArgTypesGiven(fn, i, types) ==
    IF fn = "add" /\ i = 2
    THEN addable_types(types[1].formula_type)
    ELSE ArgTypes(fn, i)

\* The type with_valid_type is called with in type_function, given the
\* types of the arguments: upper, concat and totext yield text, equal and
\* not_equal boolean, divide a number, todate a date, date_interval a date
\* interval; when_empty and regex_replace yield the type of their first
\* argument, and so does add, but for a date interval added to a date,
\* which is a date.
TypeFunction(fn, types) ==
    CASE fn \in {"upper", "concat", "totext"} -> "text"
      [] fn \in {"equal", "not_equal"} -> "boolean"
      [] fn = "divide" -> "number"
      [] fn = "todate" -> "date"
      [] fn = "date_interval" -> "date_interval"
      [] fn = "add" ->
             IF "date" \in {types[1].formula_type, types[2].formula_type}
             THEN "date"
             ELSE types[1].formula_type
      [] OTHER -> types[1].formula_type

\* The type of a reference to the field named name from table 1.
TypeFieldReference(fs, name) ==
    IF name \notin SchemaFields \/ FieldTable(name) # 1
    THEN InvalidType(UnknownFieldError(name))
    ELSE IF fs[name].status # "live"
    THEN InvalidType(UnknownFieldError(name))
    ELSE IF fs[name].formula_type = "invalid"
    THEN InvalidType(fs[name].error)
    ELSE ValidType(IF name \in LinkRowFields THEN "array" ELSE fs[name].formula_type)

\* The type of a call given the types of its arguments: the number of
\* arguments is checked first, then an invalid argument makes the call
\* invalid with that argument's error, then the argument types are checked.
TypeFunctionCall(fn, types) ==
    IF ~NumArgs(fn, Len(types))
    THEN InvalidType(FormulaError("num_args", fn, Len(types)))
    ELSE IF \E i \in 1..Len(types) : types[i].formula_type = "invalid"
    THEN types[CHOOSE i \in 1..Len(types) :
                 /\ types[i].formula_type = "invalid"
                 /\ \A j \in 1..(i - 1) : types[j].formula_type # "invalid"]
    ELSE IF \E i \in 1..Len(types) :
                types[i].formula_type \notin ArgTypesGiven(fn, i, types)
    THEN InvalidType(FormulaError("arg_type", fn,
             CHOOSE i \in 1..Len(types) :
                 /\ types[i].formula_type \notin ArgTypesGiven(fn, i, types)
                 /\ \A j \in 1..(i - 1) :
                        types[j].formula_type \in ArgTypesGiven(fn, j, types)))
    ELSE ValidType(TypeFunction(fn, types))

\* A typed expression: the node, its typed arguments and its expression_type.
WithType(e, args, type) ==
    [node |-> e.node, fn |-> e.fn, name |-> e.name, via |-> e.via,
     text |-> e.text, args |-> args, expression_type |-> type]

TypesOf(args) == [i \in 1..Len(args) |-> args[i].expression_type]

\* func_call.with_valid_type(...) as the type_function of fn calls it.
with_valid_type(fn, args) ==
    WithType(FunctionCall(fn, <<>>), args,
             ValidType(TypeFunction(fn, TypesOf(args))))

\* literal(...): a string literal typed as text.
literal(text) == WithType(StringLiteral(text), <<>>, ValidType("text"))

\* The white space character, and "(^\s+|\s+$)" with its characters numbered
\* from 301: ( ^ \s + | \s + $ ).
Space == 300
WhitespacePattern == <<301, 302, 303, 304, 305, 303, 304, 306, 307>>

\* type(arg1_type) is type(arg2_type)
SameType(arg1, arg2) ==
    arg1.expression_type.formula_type = arg2.expression_type.formula_type

RECURSIVE call_and_type_with(_, _)

\* An equal whose replacement is always an equal, whatever the class.
BaserowEqual_type_function_always_equal(fn, args) ==
    IF ~SameType(args[1], args[2])
    THEN call_and_type_with("equal",
             <<call_and_type_with("totext", <<args[1]>>),
               call_and_type_with("totext", <<args[2]>>)>>)
    ELSE with_valid_type(fn, args)

\* BaserowEqual.type_function, inherited by BaserowNotEqual: fn is the
\* function of self.__class__.
BaserowEqual_type_function(fn, args) ==
    IF ~SameType(args[1], args[2])
    THEN call_and_type_with(fn,
             <<call_and_type_with("totext", <<args[1]>>),
               call_and_type_with("totext", <<args[2]>>)>>)
    ELSE with_valid_type(fn, args)

\* A trim that types its own call.
BaserowTrim_type_function_keeps_call(args) == with_valid_type("trim", args)

\* BaserowTrim.type_function
BaserowTrim_type_function(args) ==
    call_and_type_with("regex_replace",
        <<args[1], literal(WhitespacePattern), literal(<<>>)>>)

\* BaserowConcat.type_function_given_valid_args
BaserowConcat_type_function_given_valid_args(args) ==
    with_valid_type("concat",
        [i \in 1..Len(args) |-> call_and_type_with("totext", <<args[i]>>)])

\* BaserowWhenEmpty.type_function: the invalid type made for arguments of
\* different types is not returned, the call is typed as its first argument.
BaserowWhenEmpty_type_function(args) == with_valid_type("when_empty", args)

\* type_function of the function named fn on valid arguments.
type_function(fn, args) ==
    CASE fn \in {"equal", "not_equal"} -> BaserowEqual_type_function(fn, args)
      [] fn = "trim" -> BaserowTrim_type_function(args)
      [] fn = "concat" -> BaserowConcat_type_function_given_valid_args(args)
      [] fn = "when_empty" -> BaserowWhenEmpty_type_function(args)
      [] OTHER -> with_valid_type(fn, args)

\* call_and_type_with: the call of fn on typed arguments, typed; a call
\* whose arguments are refused is typed invalid and keeps its function.
call_and_type_with(fn, args) ==
    IF TypeFunctionCall(fn, TypesOf(args)).formula_type = "invalid"
    THEN WithType(FunctionCall(fn, <<>>), args, TypeFunctionCall(fn, TypesOf(args)))
    ELSE type_function(fn, args)

\* The typed expression of an expression of a formula of table 1.
RECURSIVE TypedExpression(_, _)
TypedExpression(fs, e) ==
    CASE e.node = "string" ->
             WithType(e, <<>>,
                 IF Len(e.text) > MaxFormulaStringLength
                 THEN InvalidType(FormulaError("string_too_long", "", Len(e.text)))
                 ELSE ValidType("text"))
      [] e.node = "int" -> WithType(e, <<>>, ValidType("number"))
      [] e.node = "boolean" -> WithType(e, <<>>, ValidType("boolean"))
      [] e.node = "field" -> WithType(e, <<>>, TypeFieldReference(fs, e.name))
      [] e.node = "lookup" ->
             WithType(e, <<>>,
                 IF fs[e.via].status # "live"
                 THEN InvalidType(UnknownFieldError(e.via))
                 ELSE IF fs[e.name].status # "live"
                 THEN InvalidType(UnknownFieldError(e.name))
                 ELSE ValidType("array"))
      [] OTHER ->
             call_and_type_with(e.fn, [i \in 1..Len(e.args) |->
                                         TypedExpression(fs, e.args[i])])

\* The type of an expression of a formula of table 1.
TypeExpression(fs, e) == TypedExpression(fs, e).expression_type

\* Parsing and typing a formula: the typed formula, or the formula with the
\* reason it has no type.
TypedFormula(fs, e) ==
    IF e.node = "syntax_error"
    THEN WithType(e, <<>>, InvalidType(FormulaError("syntax", "", 0)))
    ELSE IF Depth(e) > MaxFormulaDepth
    THEN WithType(e, <<>>, InvalidType(FormulaError("max_formula_size", "", 0)))
    ELSE TypedExpression(fs, e)

\* Parsing and typing a formula: the type of the formula or why it has none.
CompileFormula(fs, e) == TypedFormula(fs, e).expression_type

\* Decimal numbers: a division is typed with NUMBER_MAX_DECIMAL_PLACES
\* places, so a quotient is kept as a whole number of 10^-5 units.  NaN is
\* the value a division by zero yields, booleans what a comparison yields.
NUMBER_MAX_DECIMAL_PLACES == 5
Scale == 10 ^ NUMBER_MAX_DECIMAL_PLACES
Decimal(units) == [t |-> "decimal", v |-> units]
NaN == [t |-> "nan"]
Bool(b) == [t |-> "bool", v |-> b]
IsNumber(val) == val.t \in {"num", "decimal"}
Units(val) == IF val.t = "num" THEN val.v * Scale ELSE val.v

\* The decimal digits of a natural number, and its last n digits.
RECURSIVE Digits(_)
Digits(n) == IF n < 10 THEN <<n>> ELSE Digits(n \div 10) \o <<n % 10>>
RECURSIVE LastDigits(_, _)
LastDigits(n, k) ==
    IF k = 0 THEN <<>> ELSE LastDigits(n \div 10, k - 1) \o <<n % 10>>

\* The decimal point.
Dot == 310

\* Text values, and what upper, totext and concat compute on them.
Text(s) == [t |-> "text", v |-> s]
UpperText(s) ==
    [i \in 1..Len(s) |-> IF s[i] >= 10 /\ s[i] < 110 THEN s[i] + 100 ELSE s[i]]
ToText(val) ==
    CASE val.t = "text" -> val.v
      [] val.t = "num" -> Digits(val.v)
      [] val.t = "decimal" ->
             Digits(val.v \div Scale) \o <<Dot>>
                 \o LastDigits(val.v % Scale, NUMBER_MAX_DECIMAL_PLACES)
      [] val.t = "nan" -> <<123, 10, 123>>
      [] OTHER -> <<>>
RECURSIVE ConcatText(_)
ConcatText(vals) ==
    IF vals = <<>> THEN <<>> ELSE ToText(Head(vals)) \o ConcatText(Tail(vals))

\* Cast(arg, TextField): null stays null.
CastToText(val) == IF val = Null THEN Null ELSE Text(ToText(val))

\* EqualsExpr and NotEqualsExpr: null when a side is null, numbers compared
\* by value.
EqualsExpr(a, b) ==
    IF a = Null \/ b = Null THEN Null
    ELSE IF IsNumber(a) /\ IsNumber(b) THEN Bool(Units(a) = Units(b))
    ELSE Bool(a = b)
NotEqualsExpr(a, b) ==
    IF EqualsExpr(a, b) = Null THEN Null ELSE Bool(~EqualsExpr(a, b).v)

\* The quotient of two numbers of units, b not 0 and neither negative, in
\* units, by long division: the whole part, then a digit for each decimal
\* place, then rounded half up.
RECURSIVE DecimalPlaces(_, _, _, _)
DecimalPlaces(rem, b, k, acc) ==
    IF k = 0 THEN acc + (IF 2 * rem >= b THEN 1 ELSE 0)
    ELSE DecimalPlaces((10 * rem) % b, b, k - 1, 10 * acc + ((10 * rem) \div b))
Quotient(a, b) ==
    (a \div b) * Scale + DecimalPlaces(a % b, b, NUMBER_MAX_DECIMAL_PLACES, 0)

\* A division that divides by whatever the divisor is: by zero it raises.
DivisionByZero == [t |-> "division_by_zero"]
Divide_by_zero_raises(a, b) ==
    IF a = Null \/ b = Null THEN Null
    ELSE IF a = NaN \/ b = NaN THEN NaN
    ELSE IF Units(b) = 0 THEN DivisionByZero
    ELSE Decimal(Quotient(Units(a), Units(b)))

\* BaserowDivide.to_django_expression on numbers that are not negative:
\* arg1 / CASE WHEN arg2 = 0 THEN NaN ELSE arg2, the quotient rounded half up
\* to NUMBER_MAX_DECIMAL_PLACES places.
Divide(a, b) ==
    IF a = Null \/ b = Null THEN Null
    ELSE IF a = NaN \/ b = NaN THEN NaN
    ELSE IF Units(b) = 0 THEN NaN
    ELSE Decimal(Quotient(Units(a), Units(b)))

\* The number of white space characters s starts with.
RECURSIVE LeadingSpaces(_)
LeadingSpaces(s) ==
    IF s = <<>> \/ Head(s) # Space THEN 0 ELSE 1 + LeadingSpaces(Tail(s))
Reversed(s) == [i \in 1..Len(s) |-> s[Len(s) + 1 - i]]

\* regexp_replace(s, pattern, repl, 'g') for the pattern of trim, matching
\* the white space s starts with and the white space it ends with, and for
\* a pattern of one ordinary character.
RegexpReplace(s, pattern, repl) ==
    CASE pattern = WhitespacePattern ->
             IF s = <<>> THEN s
             ELSE IF LeadingSpaces(s) = Len(s) THEN repl
             ELSE (IF LeadingSpaces(s) > 0 THEN repl ELSE <<>>)
                  \o SubSeq(s, LeadingSpaces(s) + 1,
                            Len(s) - LeadingSpaces(Reversed(s)))
                  \o (IF LeadingSpaces(Reversed(s)) > 0 THEN repl ELSE <<>>)
      [] Len(pattern) = 1 /\ pattern[1] < Space ->
             ConcatText([i \in 1..Len(s) |->
                            Text(IF s[i] = pattern[1] THEN repl ELSE <<s[i]>>)])

\* What lowering a trim call raises.
BaserowToDjangoExpressionGenerationError ==
    [t |-> "BaserowToDjangoExpressionGenerationError"]

\* The value of a typed formula of table 1 on row r.
RECURSIVE EvaluateFormula(_, _, _)
EvaluateFormula(d, e, r) ==
    CASE e.node = "string" -> Text(e.text)
      [] e.node = "int" -> Num(e.text[1])
      [] e.node = "field" ->
             IF e.name \in LinkRowFields
             THEN Arr(SortedSeq(Linked(d, e.name, r)))
             ELSE d.cells[e.name][r]
      [] e.node = "lookup" ->
             LookupValue(d, e.name, SortedSeq(Linked(d, e.via, r)))
      [] e.fn = "upper" -> Text(UpperText(ToText(EvaluateFormula(d, e.args[1], r))))
      [] e.fn = "totext" -> CastToText(EvaluateFormula(d, e.args[1], r))
      [] e.fn = "equal" ->
             EqualsExpr(EvaluateFormula(d, e.args[1], r),
                        EvaluateFormula(d, e.args[2], r))
      [] e.fn = "not_equal" ->
             NotEqualsExpr(EvaluateFormula(d, e.args[1], r),
                           EvaluateFormula(d, e.args[2], r))
      [] e.fn = "divide" ->
             Divide(EvaluateFormula(d, e.args[1], r),
                    EvaluateFormula(d, e.args[2], r))
      [] e.fn = "when_empty" ->
             IF EvaluateFormula(d, e.args[1], r) # Null
             THEN EvaluateFormula(d, e.args[1], r)
             ELSE EvaluateFormula(d, e.args[2], r)
      [] e.fn = "regex_replace" ->
             IF \E i \in 1..3 : EvaluateFormula(d, e.args[i], r) = Null
             THEN Null
             ELSE Text(RegexpReplace(ToText(EvaluateFormula(d, e.args[1], r)),
                                     ToText(EvaluateFormula(d, e.args[2], r)),
                                     ToText(EvaluateFormula(d, e.args[3], r))))
      [] e.fn = "trim" -> BaserowToDjangoExpressionGenerationError
      [] OTHER ->
             Text(ConcatText([i \in 1..Len(e.args) |-> EvaluateFormula(d, e.args[i], r)]))

(***************************************************************************)
(* Aggregation over the pending joins of a lookup.  A relationship table   *)
(* is the sequence of its relationships in the order they were inserted;   *)
(* every row of a linked table has an order next to its id.                *)
(***************************************************************************)
\* A pending join: the path of link row fields joined so far and the table
\* the last of them leads to.
PendingJoin(join_path) ==
    [join_path |-> join_path, join_table |-> LinkRowTable(join_path[Len(join_path)])]

\* Orders that follow the pending joins from the first to the last.
_calculate_aggregate_orders_first_join_first(pending_joins) ==
    [k \in 1..(2 * Len(pending_joins)) |->
        [join |-> pending_joins[(k + 1) \div 2].join_path,
         column |-> IF k % 2 = 1 THEN "order" ELSE "id"]]

\* _calculate_aggregate_orders: join + "__order" then join + "__id" for each
\* pending join, reversed.
_calculate_aggregate_orders(pending_joins) ==
    [k \in 1..(2 * Len(pending_joins)) |->
        [join |-> Reversed(pending_joins)[(k + 1) \div 2].join_path,
         column |-> IF k % 2 = 1 THEN "order" ELSE "id"]]

\* The joined rows t extended by the rows the last row of t is related to
\* in the relationship table, as the table holds them.
JoinNext(relationships, t) ==
    LET matching == SelectSeq(relationships, LAMBDA q : q[1] = t[Len(t)])
    IN [i \in 1..Len(matching) |-> Append(t, matching[i][2])]

RECURSIVE JoinAll(_, _)
JoinAll(relationships, tuples) ==
    IF tuples = <<>> THEN <<>>
    ELSE JoinNext(relationships, Head(tuples)) \o JoinAll(relationships, Tail(tuples))

\* The rows joined to the rows of tuples through the pending joins from
\* the one numbered i on.
RECURSIVE JoinedThrough(_, _, _, _)
JoinedThrough(thr, pending_joins, i, tuples) ==
    IF i > Len(pending_joins) THEN tuples
    ELSE JoinedThrough(thr, pending_joins, i + 1,
             JoinAll(thr[pending_joins[i].join_path[Len(pending_joins[i].join_path)]],
                     tuples))

\* The rows joined to row r: a row of every pending join's table.
PendingJoinRows(thr, pending_joins, r) ==
    LET joined == JoinedThrough(thr, pending_joins, 1, <<<<r>>>>)
    IN [i \in 1..Len(joined) |-> Tail(joined[i])]

\* The value of an ordering key on joined rows t.
OrderingValue(pending_joins, ro, t, key) ==
    LET i == CHOOSE j \in 1..Len(pending_joins) : pending_joins[j].join_path = key.join
    IN IF key.column = "id" THEN t[i] ELSE ro[pending_joins[i].join_table][t[i]]

\* ORDER BY orders: whether joined rows a come before joined rows b.
RECURSIVE OrderedBefore(_, _, _, _, _)
OrderedBefore(pending_joins, ro, orders, a, b) ==
    IF orders = <<>> THEN FALSE
    ELSE LET x == OrderingValue(pending_joins, ro, a, Head(orders))
             y == OrderingValue(pending_joins, ro, b, Head(orders))
         IN IF x # y THEN x < y
            ELSE OrderedBefore(pending_joins, ro, Tail(orders), a, b)

RECURSIVE InsertOrdered(_, _, _, _, _)
InsertOrdered(pending_joins, ro, orders, sorted, t) ==
    IF sorted = <<>> THEN <<t>>
    ELSE IF OrderedBefore(pending_joins, ro, orders, t, Head(sorted))
    THEN <<t>> \o sorted
    ELSE <<Head(sorted)>> \o InsertOrdered(pending_joins, ro, orders, Tail(sorted), t)

\* The joined rows in the order of orders; rows the orders do not tell apart
\* stay as the relationship table holds them.
RECURSIVE OrderedRows(_, _, _, _)
OrderedRows(pending_joins, ro, orders, tuples) ==
    IF tuples = <<>> THEN <<>>
    ELSE InsertOrdered(pending_joins, ro, orders,
             OrderedRows(pending_joins, ro, orders, SubSeq(tuples, 1, Len(tuples) - 1)),
             tuples[Len(tuples)])

\* JSONObject(**{join.join_table: F(join.join_path + "__id") for join in
\* pending_joins}) on the joined rows t: the dict has one key for every
\* join_table, and a key given again takes the value given last.
JoinTableIds(pending_joins, t) ==
    [table \in {pending_joins[k].join_table : k \in 1..Len(pending_joins)} |->
        t[MaxOf({k \in 1..Len(pending_joins) : pending_joins[k].join_table = table})]]

\* BaserowArrayAgg.to_django_expression_given_args on row r: the array of the
\* values of field target with the id of the joined row, or the ids of the
\* joined rows by join_table when there is more than one pending join; []
\* over no rows.
BaserowArrayAgg(thr, pending_joins, ro, d, target, r) ==
    LET joined == OrderedRows(pending_joins, ro,
                      _calculate_aggregate_orders(pending_joins),
                      PendingJoinRows(thr, pending_joins, r))
    IN Arr([i \in 1..Len(joined) |->
               IF Len(pending_joins) > 1
               THEN [ids |-> JoinTableIds(pending_joins, joined[i]),
                     value |-> d.cells[target][joined[i][Len(joined[i])]]]
               ELSE [id |-> joined[i][1],
                     value |-> d.cells[target][joined[i][Len(joined[i])]]]])

\* The texts of vals with the separator between them.
RECURSIVE Separated(_, _)
Separated(vals, separator) ==
    IF Len(vals) <= 1 THEN ConcatText(vals)
    ELSE ToText(Head(vals)) \o separator \o Separated(Tail(vals), separator)

\* BaserowStringAgg with the same ordering: join(totext(lookup), separator),
\* null over no rows.
BaserowStringAgg(thr, pending_joins, ro, d, target, separator, r) ==
    LET array == BaserowArrayAgg(thr, pending_joins, ro, d, target, r).v
    IN IF array = <<>> THEN Null
       ELSE Text(Separated([i \in 1..Len(array) |-> array[i].value], separator))

(***************************************************************************)
(* The field dependency graph: an edge for every field a formula           *)
(* references, reached directly or through a link row field; an edge to a  *)
(* field that is gone keeps its name as a broken reference.                *)
(***************************************************************************)
\* The fields an expression references and the link each is reached through.
RECURSIVE References(_)
References(e) ==
    CASE e.node = "field" -> {[dependency |-> e.name, via |-> NoField]}
      [] e.node = "lookup" -> {[dependency |-> e.name, via |-> e.via]}
      [] OTHER -> UNION {References(e.args[i]) : i \in 1..Len(e.args)}

IsLive(fs, name) == name \in SchemaFields /\ fs[name].status = "live"

\* An edge whose target is gone: no dependency, the name it was known by.
BrokenReference(f, via, name) ==
    [dependant |-> f, dependency |-> NoField, via |-> via,
     broken_reference_field_name |-> name]

\* A rebuild that keeps the edge of a reference whose target is gone.
FieldDependency_never_broken(fs, f, ref) ==
    [dependant |-> f, dependency |-> ref.dependency, via |-> ref.via,
     broken_reference_field_name |-> NoField]

\* The edge of field f for one reference: to the field when it is there,
\* through the link row field when that is there; otherwise a broken
\* reference to the name of what is missing, the link row field first.
FieldDependency(fs, f, ref) ==
    IF ref.via # NoField /\ ~IsLive(fs, ref.via)
    THEN BrokenReference(f, NoField, ref.via)
    ELSE IF ~IsLive(fs, ref.dependency)
    THEN BrokenReference(f, ref.via, ref.dependency)
    ELSE [dependant |-> f, dependency |-> ref.dependency, via |-> ref.via,
          broken_reference_field_name |-> NoField]

\* The edges of field f with formula e.
FieldDependencies(fs, f, e) == {FieldDependency(fs, f, ref) : ref \in References(e)}

\* The fields reached from the fields S along direct edges.
RECURSIVE DirectClosure(_, _)
DirectClosure(deps, S) ==
    LET next == S \cup {x.dependency :
                           x \in {y \in deps : /\ y.dependant \in S
                                               /\ y.via = NoField
                                               /\ y.dependency # NoField}}
    IN IF next = S THEN S ELSE DirectClosure(deps, next)

\* A rebuild that accepts every reference.
CycleError_unchecked(deps, f, e) == ""

\* The error of a rebuild of f's edges from e that would make f depend
\* directly on itself, "" when there is none.
CycleError(deps, f, e) ==
    IF \E ref \in References(e) : ref.via = NoField /\ ref.dependency = f
    THEN "ERROR_FIELD_SELF_REFERENCE"
    ELSE IF \E ref \in References(e) :
                ref.via = NoField /\ f \in DirectClosure(deps, {ref.dependency})
    THEN "ERROR_FIELD_CIRCULAR_REFERENCE"
    ELSE ""

\* The fields, their dependencies and the rows: what a request changes.
World(fs, deps, d) == [fields |-> fs, dependencies |-> deps, db |-> d]

\* The record of a formula field with formula e typed as type.
TypedField(status, e, type) ==
    [status |-> status, formula |-> e, formula_type |-> type.formula_type,
     error |-> type.error]

\* ExpressionField.pre_save: the cells of formula field f, null when the
\* field has an error.
FormulaCells(fs, d, f) ==
    [r \in RowIds |->
        IF fs[f].error # NoError \/ fs[f].formula_type = "invalid"
        THEN Null
        ELSE EvaluateFormula(d, TypedFormula(fs, fs[f].formula), r)]

\* The formula fields of S typed again, their edges rebuilt and their cells
\* recalculated.
RetypeAll(w, S) ==
    LET fs == [f \in SchemaFields |->
                  IF f \in S
                  THEN TypedField(w.fields[f].status, w.fields[f].formula,
                                  CompileFormula(w.fields, w.fields[f].formula))
                  ELSE w.fields[f]]
    IN World(fs,
             {x \in w.dependencies : x.dependant \notin S}
                 \cup UNION {FieldDependencies(fs, f, fs[f].formula) : f \in S},
             [w.db EXCEPT !.cells =
                 [f \in CellFields |->
                     IF f \in S THEN FormulaCells(fs, w.db, f) ELSE w.db.cells[f]]])

\* The live formula fields with an edge to or through a field of S, broken
\* or not.
Dependants(w, S) ==
    {f \in FormulaFields :
        /\ w.fields[f].status = "live"
        /\ \E x \in w.dependencies :
               /\ x.dependant = f
               /\ \/ x.dependency \in S
                  \/ x.via \in S
                  \/ x.broken_reference_field_name \in S}

\* A cascade that stops at the fields depending directly on the change.
Cascade_direct_only(w, frontier, fuel) ==
    IF frontier = {} THEN w ELSE RetypeAll(w, frontier)

\* The fields of frontier typed again, then the fields depending on them,
\* and so on.
RECURSIVE Cascade(_, _, _)
Cascade(w, frontier, fuel) ==
    IF frontier = {} \/ fuel = 0 THEN w
    ELSE Cascade(RetypeAll(w, frontier), Dependants(w, frontier), fuel - 1)

CascadeDepth == Cardinality(FormulaFields) + 2

(***************************************************************************)
(* The field handler: formula fields of table 1 are created, altered,      *)
(* trashed and restored; the data field 21 and the link row field 11 are   *)
(* trashed and restored.                                                   *)
(***************************************************************************)
\* A literal one character longer than the longest string allowed.
LongString == StringLiteral([i \in 1..(MaxFormulaStringLength + 1) |-> 10])

\* upper nested n times around a string.
RECURSIVE NestedUpper(_)
NestedUpper(n) ==
    IF n = 0 THEN StringLiteral(<<10>>)
    ELSE FunctionCall("upper", <<NestedUpper(n - 1)>>)

\* The formulas of INVALID_FORMULA_TESTS over upper, concat, literals and
\* field references.
INVALID_FORMULA_TESTS ==
    {SyntaxError,
     NestedUpper(MaxFormulaDepth),
     FunctionCall("upper", <<LongString>>),
     FunctionCall("concat", <<>>),
     FunctionCall("concat", <<StringLiteral(<<10>>)>>),
     FunctionCall("upper", <<>>),
     FunctionCall("upper", <<StringLiteral(<<10>>), StringLiteral(<<10>>)>>),
     FunctionCall("upper", <<IntLiteral(1)>>),
     FieldReference(UnknownName)}

\* The formulas a request may carry.
Formulas ==
    {LookupReference(11, 21), FieldReference(1), FieldReference(2),
     FieldReference(22), FunctionCall("upper", <<StringLiteral(<<10>>)>>)}
        \cup INVALID_FORMULA_TESTS

TrashableFields == {1, 2, 11, 21}

NoResponse == [op |-> "", field |-> NoField, formula |-> NoFormula, error |-> ""]
Response(op, f, e, error) == [op |-> op, field |-> f, formula |-> e, error |-> error]

InitialFields ==
    [f \in SchemaFields |->
        IF f \in FormulaFields
        THEN TypedField("absent", NoFormula, ValidType(""))
        ELSE TypedField("live", NoFormula,
                        ValidType(IF f \in LinkRowFields THEN "link_row" ELSE "number"))]

InitialRows ==
    [links |-> [l \in {11, 13} |-> IF l = 11 THEN {<<1, r>> : r \in RowIds} ELSE {}],
     cells |-> [f \in CellFields |->
                  [r \in RowIds |-> IF f \in DataFields THEN Num(r) ELSE Null]]]

\* The error a request to give field f the formula e is rejected with, ""
\* when it is accepted.
RequestError(fs, deps, f, e) ==
    IF CycleError(deps, f, e) # "" THEN CycleError(deps, f, e)
    ELSE IF CompileFormula(fs, e).formula_type = "invalid" THEN "ERROR_WITH_FORMULA"
    ELSE ""

\* The world once field f has the formula e.
WithFormula(w, f, e) ==
    Cascade(World([w.fields EXCEPT ![f] = TypedField("live", e, ValidType(""))],
                  w.dependencies, w.db),
            {f}, CascadeDepth)

\* The world once field c is trashed: its own edges are dropped and the
\* fields referencing it are typed again.
Trashed(w, c) ==
    Cascade(World([w.fields EXCEPT ![c].status = "trashed"],
                  {x \in w.dependencies : x.dependant # c}, w.db),
            Dependants(w, {c}), CascadeDepth)

\* A restore that puts the field back without typing anything again.
Restored_not_recompiled(w, c) ==
    World([w.fields EXCEPT ![c].status = "live"], w.dependencies, w.db)

\* The world once field c is restored: c, when it is a formula field, and the
\* fields referencing its name are typed again.
Restored(w, c) ==
    Cascade(World([w.fields EXCEPT ![c].status = "live"], w.dependencies, w.db),
            ({c} \cap FormulaFields) \cup Dependants(w, {c}), CascadeDepth)

\* A link row field that goes to the trash without its reciprocal field.
WithRelatedField_alone(c) == <<c>>

\* The fields that go to the trash, or come back from it, with field c: a
\* link row field takes its reciprocal field in the linked table along.
WithRelatedField(c) ==
    IF c \in LinkRowFields /\ LinkRowRelatedField(c) \in SchemaFields
    THEN <<c, LinkRowRelatedField(c)>>
    ELSE <<c>>

\* The world once the fields of the sequence going are trashed, those that
\* are in the trash already left aside.
RECURSIVE TrashedEach(_, _)
TrashedEach(w, going) ==
    IF going = <<>> THEN w
    ELSE IF w.fields[Head(going)].status = "live"
    THEN TrashedEach(Trashed(w, Head(going)), Tail(going))
    ELSE TrashedEach(w, Tail(going))

\* The world once the fields of the sequence coming that are in the trash
\* are restored.
RECURSIVE RestoredEach(_, _)
RestoredEach(w, coming) ==
    IF coming = <<>> THEN w
    ELSE IF w.fields[Head(coming)].status = "trashed"
    THEN RestoredEach(Restored(w, Head(coming)), Tail(coming))
    ELSE RestoredEach(w, Tail(coming))

(***************************************************************************)
(* The state: the row store, the collector of the current propagation and *)
(* what it has done so far.                                                *)
(***************************************************************************)
VARIABLES db, collector, phase, adds, raised, issued, returned, signals,
          tree, call, before, request, fields, dependencies, response, previous,
          expression, typed, cell_values, existing,
          row_order, through, joins, aggregated,
          job, transaction, cache, task, reader,
          file, table_rows, import_task, import_job,
          job_rows, now, cleanups,
          view_filters, next_filter_id, action, did,
          action_log, steps,
          func_calls, outcomes

\* tree, call and before belong to the specification of a single
\* PathBasedUpdateStatementCollector (SpecAdd below): the tree, the last
\* add_update_statement call made on its root and the tree before that call.
addVars == <<tree, call, before, request>>
\* fields, dependencies, response and previous belong to the specification
\* of the field handler (SpecFields below).
fieldVars == <<fields, dependencies, response, previous>>
\* expression, typed and cell_values belong to the specification of the formula
\* typer (SpecTyper below): the formula handed to the typer, the typed
\* formula it returned and the cells calculated from it.
typerVars == <<expression, typed, cell_values>>
\* existing belongs to the specification of the row handler (SpecRows
\* below): the rows of table 1 that exist; the rows of the other tables
\* all do.
\* request belongs to the specification of the row handler (SpecRows
\* below): the last row update request served.
vars == <<db, collector, phase, adds, raised, issued, returned, signals,
          tree, call, before, request, fields, dependencies, response, previous,
          expression, typed, cell_values, existing,
          row_order, through, joins, aggregated,
          job, transaction, cache, task, reader,
          file, table_rows, import_task, import_job,
          job_rows, now, cleanups,
          view_filters, next_filter_id, action, did,
          action_log, steps,
          func_calls, outcomes>>

\* row_order, through, joins and aggregated belong to the specification of
\* the aggregation over pending joins (SpecOrder below): the order of the
\* rows of tables 2 and 3, the relationship tables of link row fields 11 and
\* 13, the pending joins of the lookup and its last value on row 1.
orderVars == <<row_order, through, joins, aggregated>>

NoAggregate == [op |-> "", array |-> Null, text |-> Null]
OrderIdle ==
    /\ row_order = [t \in {2, 3} |-> [r \in RowIds |-> r]]
    /\ through = [l \in {11, 13} |-> <<>>]
    /\ joins = <<>>
    /\ aggregated = NoAggregate

\* job, transaction, cache, task and reader belong to the specification of
\* the job runner (SpecJobs below): the committed row of the job, the row
\* as the running task's open transaction has it, the cache entry under the
\* job's progress key, the task and what a reader on another database
\* connection last got.
jobVars == <<job, transaction, cache, task, reader>>

JOB_PENDING == "pending"
JOB_FINISHED == "finished"
JOB_FAILED == "failed"

\* Job: a job as create_fake_job leaves it.
NewJob ==
    [progress_percentage |-> 0, state |-> JOB_PENDING, error |-> "",
     human_readable_error |-> ""]
NoTransaction == [open |-> FALSE, row |-> NewJob]
NoEntry == [entry |-> FALSE, value |-> <<>>]
NewTask ==
    [type |-> "custom_job_type", pc |-> "created", run_calls |-> 0,
     raised |-> ""]
NoObservation ==
    [at |-> "", progress_percentage |-> 0, state |-> "",
     cached_progress_percentage |-> 0, cached_state |-> ""]
JobsIdle ==
    /\ job = NewJob
    /\ transaction = NoTransaction
    /\ cache = NoEntry
    /\ task = NewTask
    /\ reader = NoObservation

\* file, table_rows, import_task and import_job belong to the specification
\* of the file import (SpecImport below): the rows of the uploaded file,
\* the rows committed to the table, the running import with what its
\* transaction holds, and the row of the file import job.
importVars == <<file, table_rows, import_task, import_job>>

NewImportJob ==
    [state |-> JOB_PENDING, error |-> "", human_readable_error |-> "",
     failing_rows |-> {}]
NewImportTask ==
    [pc |-> "created", position |-> 0, valid |-> <<>>, created |-> {},
     failing |-> <<>>, raised |-> ""]
ImportIdle ==
    /\ file = <<>>
    /\ table_rows = {}
    /\ import_task = NewImportTask
    /\ import_job = NewImportJob

\* job_rows, now and cleanups belong to the specification of the periodic
\* clean up of the jobs (SpecCleanup below): state and updated_on of every
\* job, the time, and how often clean_up_jobs has run.
cleanupVars == <<job_rows, now, cleanups>>

CleanupIdle ==
    /\ job_rows = <<>>
    /\ now = 0
    /\ cleanups = 0

\* view_filters, next_filter_id, action and did belong to the specification
\* of the undoable view filter actions (SpecFilters below): the filters of
\* the view by id, the id the next created filter gets, the registered
\* action with its params, and what the do of the action was called with.
filterVars == <<view_filters, next_filter_id, action, did>>

\* The id of a model instance that is not, or no longer, stored.
NoFilterId == 0
NoParams == [view_filter_id |-> NoFilterId]
NoAction == [type |-> "", params |-> NoParams, is_undone |-> FALSE, error |-> ""]
NothingDid == [op |-> ""]
FilterIdle ==
    /\ view_filters = <<>>
    /\ next_filter_id = 1
    /\ action = NoAction
    /\ did = NothingDid

\* action_log and steps belong to the specification of the action log
\* (SpecLog below): the actions registered in the scope of the view, oldest
\* first, and the calls made so far.
logVars == <<action_log, steps>>

LogIdle ==
    /\ action_log = <<>>
    /\ steps = <<>>

\* func_calls and outcomes belong to the specification of the lowering
\* (SpecLower below): the function calls of one typed formula, each with its
\* pending joins and its many flag, and what every typing and lowering of
\* the formula has given so far.
lowerVars == <<func_calls, outcomes>>

LowerIdle ==
    /\ func_calls = <<>>
    /\ outcomes = <<>>

\* No formula has been handed to the typer.
NotTyped == WithType(NoFormula, <<>>, ValidType(""))
NoValues == [r \in RowIds |-> Null]
TyperIdle == expression = NoFormula /\ typed = NotTyped /\ cell_values = NoValues

\* The paths a caller may hand to the collector, well formed or not.
RECURSIVE SeqsUpTo(_, _)
SeqsUpTo(S, n) ==
    IF n = 0 THEN {<<>>}
    ELSE LET shorter == SeqsUpTo(S, n - 1)
         IN shorter \cup {Append(p, x) : p \in shorter, x \in S}

\* The table reached by following path from table t, 0 when a link of the
\* path does not point back to the table reached before it.
RECURSIVE TableAfter(_, _)
TableAfter(t, path) ==
    IF path = <<>> THEN t
    ELSE IF LinkRowTable(Head(path)) # t THEN 0
         ELSE TableAfter(FieldTable(Head(path)), Tail(path))

\* The paths handed in from starting table t: every path of link row fields
\* up to the first link that does not fit (nothing of a path is read after it).
ViaPaths(t) ==
    {p \in SeqsUpTo(LinkRowFields, MaxPathLen) :
        Len(p) <= 1 \/ TableAfter(t, SubSeq(p, 1, Len(p) - 1)) # 0}
Statements == {Const(1), Const(2)}
StartingRowIds == {StartNone, StartInt(1), StartInt(MaxRows), StartList(RowIds)}
DeletedRels == {DeletedNone, DeletedDict([x \in {11, 12} |-> {MaxRows}])}
LinkRelations == {{<<1, 1>>, <<MaxRows, 1>>, <<MaxRows, MaxRows>>}}
LinkRelations13 ==
    {{<<r, r>> : r \in RowIds}}

NoCollector == FieldUpdateCollector(1, StartNone, DeletedNone)
NoTree == <<PathBasedUpdateStatementCollector(<<>>, 1, NoField)>>
NoCall == [field |-> NoField, update_statement |-> Const(0), path |-> <<>>]
NoRequest == [op |-> "", table |-> 0, field |-> NoField, single |-> FALSE,
              values |-> <<>>, old |-> <<>>]

Init ==
    /\ tree = NoTree
    /\ call = NoCall
    /\ before = NoTree
    /\ request = NoRequest
    /\ fields = InitialFields
    /\ dependencies = {}
    /\ response = NoResponse
    /\ previous = World(InitialFields, {}, InitialRows)
    /\ existing = RowIds
    /\ LowerIdle
    /\ LogIdle
    /\ FilterIdle
    /\ CleanupIdle
    /\ ImportIdle
    /\ JobsIdle
    /\ OrderIdle
    /\ TyperIdle
    /\ db \in {[links |-> [l \in {11, 13} |-> IF l = 11 THEN a ELSE b],
                cells |-> [f \in CellFields |->
                             [r \in RowIds |-> IF f \in DataFields THEN Num(r) ELSE Null]]] :
                   a \in LinkRelations, b \in LinkRelations}
    /\ collector = NoCollector
    /\ phase = "idle"
    /\ adds = 0
    /\ raised = "no"
    /\ issued = <<>>
    /\ returned = <<>>
    /\ signals = <<>>

NewCollector(starting_table, starting_row_id, deleted) ==
    /\ phase = "idle"
    /\ collector' = FieldUpdateCollector(starting_table, starting_row_id, deleted)
    /\ phase' = "collecting"
    /\ UNCHANGED <<db, adds, raised, issued, returned, signals, addVars, fieldVars, typerVars, existing,
                   orderVars, jobVars, importVars, cleanupVars, filterVars, logVars,
                   lowerVars>>

AddField(field, update_statement, path) ==
    /\ phase = "collecting"
    /\ adds < MaxAdds
    /\ \E r \in {add_field_with_pending_update_statement(
                        collector, field, update_statement, path)} :
          /\ collector' = r.collector
          /\ raised' = r.raised
    /\ adds' = adds + 1
    /\ UNCHANGED <<db, phase, issued, returned, signals, addVars, fieldVars, typerVars, existing,
                   orderVars, jobVars, importVars, cleanupVars, filterVars, logVars,
                   lowerVars>>

ApplyUpdates ==
    /\ phase = "collecting"
    /\ \E r \in {execute_all(collector.update_statement_collector, <<>>,
                             NothingDone(db), collector.starting_row_id, <<>>,
                             collector.deleted_m2m_rels_per_link_field)} :
          /\ db' = r.db
          /\ issued' = r.issued
    /\ returned' = _for_table(collector, collector.starting_table)
    /\ phase' = "applied"
    /\ UNCHANGED <<collector, adds, raised, signals, addVars, fieldVars, typerVars, existing,
                   orderVars, jobVars, importVars, cleanupVars, filterVars, logVars,
                   lowerVars>>

SendSignals ==
    /\ phase = "applied"
    /\ signals' = send_additional_field_updated_signals(collector)
    /\ phase' = "sent"
    /\ UNCHANGED <<db, collector, adds, raised, issued, returned, addVars, fieldVars, typerVars, existing,
                   orderVars, jobVars, importVars, cleanupVars, filterVars, logVars,
                   lowerVars>>

Next ==
    \/ \E t \in Tables, s \in StartingRowIds, d \in DeletedRels : NewCollector(t, s, d)
    \/ \E f \in ComputedFields, u \in Statements, p \in ViaPaths(collector.starting_table) :
            AddField(f, u, p)
    \/ ApplyUpdates
    \/ SendSignals

Spec == Init /\ [][Next]_vars

(***************************************************************************)
(* SpecAdd: one PathBasedUpdateStatementCollector rooted at some table and *)
(* the add_update_statement calls made on it.                              *)
(***************************************************************************)
InitAdd ==
    /\ \E t \in Tables : tree = <<PathBasedUpdateStatementCollector(<<>>, t, NoField)>>
    /\ call = NoCall
    /\ before = tree
    /\ request = NoRequest
    /\ fields = InitialFields
    /\ dependencies = {}
    /\ response = NoResponse
    /\ previous = World(InitialFields, {}, InitialRows)
    /\ existing = RowIds
    /\ LowerIdle
    /\ LogIdle
    /\ FilterIdle
    /\ CleanupIdle
    /\ ImportIdle
    /\ JobsIdle
    /\ OrderIdle
    /\ TyperIdle
    /\ db = [links |-> [l \in {11, 13} |-> {}],
             cells |-> [f \in CellFields |-> [r \in RowIds |-> Null]]]
    /\ collector = NoCollector
    /\ phase = "idle"
    /\ adds = 0
    /\ raised = "no"
    /\ issued = <<>>
    /\ returned = <<>>
    /\ signals = <<>>

AddUpdateStatement(field, update_statement, path) ==
    /\ adds < MaxAdds
    /\ \E r \in {add_update_statement(tree, <<>>, field, update_statement, path)} :
          /\ tree' = r.nodes
          /\ raised' = r.raised
    /\ call' = [field |-> field, update_statement |-> update_statement, path |-> path]
    /\ before' = tree
    /\ adds' = adds + 1
    /\ UNCHANGED <<db, collector, phase, issued, returned, signals, request, fieldVars, typerVars, existing,
                   orderVars, jobVars, importVars, cleanupVars, filterVars, logVars,
                   lowerVars>>

NextAdd ==
    \E f \in ComputedFields, u \in Statements, p \in ViaPaths(tree[1].table) :
        AddUpdateStatement(f, u, p)

SpecAdd == InitAdd /\ [][NextAdd]_vars

(***************************************************************************)
(* SpecRows: the row handler serving updates of link row cells.  Every     *)
(* update rewrites the relations of the rows named, collects the update    *)
(* statements of the fields depending on the link row field and applies    *)
(* them through a FieldUpdateCollector.                                    *)
(***************************************************************************)
\* The formula of every computed field: fields 1 and 2 of table 1 look up
\* and sum field 21 of table 2 through link 11, fields 3 and 4 of table 2
\* look up and sum field 22 of table 1 through link 12, field 5 of table 3
\* sums field 4 of table 2 through link 14.
Formula(f) ==
    CASE f = 1 -> Lookup(11, 21)
      [] f = 2 -> SumLookup(11, 21)
      [] f = 3 -> Lookup(12, 22)
      [] f = 4 -> SumLookup(12, 22)
      [] OTHER -> SumLookup(14, 4)

\* The fields whose formula reads field f, each with the path leading to it
\* when f is reached by path.
DependantsOf(f, path) ==
    LET deps == SortedSeq({g \in ComputedFields : Formula(g).target = f})
    IN [i \in 1..Len(deps) |->
           [field |-> deps[i], path |-> Append(path, Formula(deps[i]).via)]]

\* The fields whose formula joins through link row field l of the starting
\* table (at the root) or through its related field (one link away).
DependantsOfLink(l) ==
    LET here == SortedSeq({g \in ComputedFields : Formula(g).via = l})
        there == SortedSeq({g \in ComputedFields : Formula(g).via = LinkRowRelatedField(l)})
    IN [i \in 1..Len(here) |-> [field |-> here[i], path |-> <<>>]]
       \o [i \in 1..Len(there) |->
              [field |-> there[i], path |-> <<LinkRowRelatedField(l)>>]]

\* Every field of the work list and, after each, its own dependants are
\* handed to the collector with their formula as update statement.
RECURSIVE CollectDependants(_, _, _)
RECURSIVE CollectNext(_, _, _, _)
CollectDependants(c, work, raisedSoFar) ==
    IF work = <<>> THEN [collector |-> c, raised |-> raisedSoFar]
    ELSE CollectNext(add_field_with_pending_update_statement(
                         c, Head(work).field, Formula(Head(work).field), Head(work).path),
                     Head(work), Tail(work), raisedSoFar)

\* After field w of the work list was added: go on with its dependants, then
\* with the rest of the list.
CollectNext(added, w, rest, raisedSoFar) ==
    CollectDependants(added.collector, DependantsOf(w.field, w.path) \o rest,
                      IF raisedSoFar = "no" THEN added.raised ELSE raisedSoFar)

\* The relation of link row field l after the rows of values got the links
\* values gives them.
WithLinks(d, l, values) ==
    LET keep == {q \in d.links[Through(l)] :
                    (IF l = Through(l) THEN q[1] ELSE q[2]) \notin DOMAIN values}
        new == UNION {{IF l = Through(l) THEN <<r, o>> ELSE <<o, r>> : o \in values[r]} :
                         r \in DOMAIN values}
    IN [d EXCEPT !.links[Through(l)] = keep \cup new]

\* A request that does not tell which relationships it deleted.
DeletedRelationships_none(d, l, values) == {}

\* The rows of the linked table that lost a relationship with a row of values.
DeletedRelationships(d, l, values) ==
    UNION {Linked(d, l, r) \ values[r] : r \in DOMAIN values}

\* The cells of the computed fields when every formula is evaluated afresh.
Recalculated(d) ==
    LET first == [d EXCEPT !.cells =
                    [f \in CellFields |-> [r \in RowIds |->
                        IF f \in {1, 2, 3, 4} THEN Evaluate(d, Formula(f), r)
                        ELSE d.cells[f][r]]]]
    IN [first EXCEPT !.cells[5] = [r \in RowIds |-> Evaluate(first, Formula(5), r)]]

InitRows ==
    /\ \E b \in LinkRelations13 :
           db = Recalculated(
                    [links |-> [l \in {11, 13} |-> IF l = 11 THEN {} ELSE b],
                     cells |-> [f \in CellFields |->
                                  [r \in RowIds |-> IF f \in DataFields THEN Num(r) ELSE Null]]])
    /\ collector = NoCollector
    /\ phase = "idle"
    /\ adds = 0
    /\ raised = "no"
    /\ issued = <<>>
    /\ returned = <<>>
    /\ signals = <<>>
    /\ tree = NoTree
    /\ call = NoCall
    /\ before = NoTree
    /\ request = NoRequest
    /\ fields = InitialFields
    /\ dependencies = {}
    /\ response = NoResponse
    /\ previous = World(InitialFields, {}, InitialRows)
    /\ existing = RowIds
    /\ LowerIdle
    /\ LogIdle
    /\ FilterIdle
    /\ CleanupIdle
    /\ ImportIdle
    /\ JobsIdle
    /\ OrderIdle
    /\ TyperIdle

\* The request op gives the rows of values their links in link row field l
\* of table FieldTable(l); the fields depending on l are collected and
\* updated.
ChangeLinks(op, l, values, single) ==
    LET gone == DeletedRelationships(db, l, values)
        deleted == DeletedDict(IF gone = {} THEN <<>> ELSE [x \in {l} |-> gone])
        start == IF single THEN StartInt(CHOOSE r \in DOMAIN values : TRUE)
                 ELSE StartList(DOMAIN values)
    IN /\ single => Cardinality(DOMAIN values) = 1
       /\ \E collected \in {CollectDependants(
                               FieldUpdateCollector(FieldTable(l), start, deleted),
                               DependantsOfLink(l), "no")} :
          \E applied \in {execute_all(collected.collector.update_statement_collector,
                                      <<>>, NothingDone(WithLinks(db, l, values)),
                                      start, <<>>, deleted)} :
              /\ db' = applied.db
              /\ collector' = collected.collector
              /\ raised' = collected.raised
              /\ issued' = applied.issued
              /\ returned' = _for_table(collected.collector, FieldTable(l))
              /\ signals' = send_additional_field_updated_signals(collected.collector)
       /\ request' = [op |-> op, table |-> FieldTable(l), field |-> l, single |-> single,
                      values |-> values,
                      old |-> [r \in DOMAIN values |-> Linked(db, l, r)]]
       /\ UNCHANGED <<phase, adds, tree, call, before, fieldVars, typerVars, orderVars, jobVars,
                   importVars, cleanupVars, filterVars, logVars, lowerVars>>

\* The rows of table t that exist.
ExistingRows(t) == IF t = 1 THEN existing ELSE RowIds

\* RowHandler.update_row_by_id (single) and RowHandler.update_rows: rows that
\* exist get new links to rows that exist.
UpdateRows(l, values, single) ==
    /\ DOMAIN values \subseteq ExistingRows(FieldTable(l))
    /\ \A r \in DOMAIN values : values[r] \subseteq ExistingRows(LinkRowTable(l))
    /\ ChangeLinks("update", l, values, single)
    /\ UNCHANGED existing

\* RowHandler.create_rows on table 1: the new rows come with their links in
\* link row field 11.
CreateRows(values) ==
    /\ DOMAIN values \cap existing = {}
    /\ ChangeLinks("create", 11, values, FALSE)
    /\ existing' = existing \cup DOMAIN values

\* RowHandler.delete_row on table 1: the row goes with its relationships.
DeleteRow(r) ==
    /\ r \in existing
    /\ ChangeLinks("delete", 11, [x \in {r} |-> {}], TRUE)
    /\ existing' = existing \ {r}

NextRows ==
    \/ \E l \in {11, 12}, rows \in (SUBSET RowIds) \ {{}}, single \in BOOLEAN :
           \E values \in [rows -> SUBSET RowIds] : UpdateRows(l, values, single)
    \/ \E rows \in (SUBSET RowIds) \ {{}} :
           \E values \in [rows -> SUBSET RowIds] : CreateRows(values)
    \/ \E r \in RowIds : DeleteRow(r)

SpecRows == InitRows /\ [][NextRows]_vars

(***************************************************************************)
(* SpecDiamond: table 3 has two link row fields to table 2, 14 and 15     *)
(* (the reciprocal field of 15 is 16).  Field 4 of table 2 sums field 22  *)
(* of table 1 through link 12 and field 5 of table 3 adds the sum of      *)
(* field 4 through link 14 to the sum of field 4 through link 15.  A      *)
(* value of field 22 is changed in one row at a time.                     *)
(***************************************************************************)
MaxValue == 3

DiamondFormula(f) == IF f = 5 THEN SumOfLookups(14, 15, 4) ELSE Formula(f)

\* The fields depending on field 22 of the starting table, each before the
\* fields depending on it, with the path it is reached by: field 5 once
\* for each of its two links.
DiamondDependants ==
    <<[field |-> 3, path |-> <<12>>],
      [field |-> 4, path |-> <<12>>],
      [field |-> 5, path |-> <<12, 14>>],
      [field |-> 5, path |-> <<12, 15>>]>>

\* Every field of the work list is handed to the collector with its formula
\* as update statement.
RECURSIVE CollectDiamond(_, _)
CollectDiamond(c, work) ==
    IF work = <<>> THEN c
    ELSE CollectDiamond(
             add_field_with_pending_update_statement(
                 c, Head(work).field, DiamondFormula(Head(work).field),
                 Head(work).path).collector,
             Tail(work))

\* The cells of the fields of the diamond when every formula is evaluated
\* afresh, a field after the fields it reads.
DiamondRecalculated(d) ==
    LET first == [d EXCEPT !.cells =
                    [f \in CellFields |-> [r \in RowIds |->
                        IF f \in {3, 4} THEN Evaluate(d, DiamondFormula(f), r)
                        ELSE d.cells[f][r]]]]
    IN [first EXCEPT !.cells[5] =
            [r \in RowIds |-> Evaluate(first, DiamondFormula(5), r)]]

\* The relationships of link row field 12 with 11, of 13 with 14 and of 15
\* with 16.
DiamondLinks ==
    {[l \in {11, 13, 15} |-> IF l = 11 THEN a ELSE IF l = 13 THEN b ELSE c] :
        a \in {{<<1, 1>>, <<1, MaxRows>>}, {<<1, 1>>, <<MaxRows, MaxRows>>}},
        b \in {{<<1, 1>>}, {<<1, 1>>, <<MaxRows, 1>>}},
        c \in {{<<MaxRows, MaxRows>>}, {<<1, 1>>}, {<<1, MaxRows>>, <<MaxRows, MaxRows>>}}}

InitDiamond ==
    /\ \E links \in DiamondLinks :
           db = DiamondRecalculated(
                    [links |-> links,
                     cells |-> [f \in CellFields |->
                                  [r \in RowIds |-> IF f \in DataFields THEN Num(r) ELSE Null]]])
    /\ collector = NoCollector
    /\ phase = "idle"
    /\ adds = 0
    /\ raised = "no"
    /\ issued = <<>>
    /\ returned = <<>>
    /\ signals = <<>>
    /\ tree = NoTree
    /\ call = NoCall
    /\ before = NoTree
    /\ request = NoRequest
    /\ fields = InitialFields
    /\ dependencies = {}
    /\ response = NoResponse
    /\ previous = World(InitialFields, {}, InitialRows)
    /\ existing = RowIds
    /\ LowerIdle
    /\ LogIdle
    /\ FilterIdle
    /\ CleanupIdle
    /\ ImportIdle
    /\ JobsIdle
    /\ OrderIdle
    /\ TyperIdle

\* RowHandler.update_row_by_id on table 1: the row gets value v in field 22,
\* the fields depending on field 22 are collected and updated.
UpdateValue(r, v) ==
    /\ db.cells[22][r] # Num(v)
    /\ \E collected \in {CollectDiamond(FieldUpdateCollector(1, StartInt(r), DeletedNone),
                                        DiamondDependants)} :
       \E applied \in {execute_all(collected.update_statement_collector, <<>>,
                                   NothingDone([db EXCEPT !.cells[22][r] = Num(v)]),
                                   StartInt(r), <<>>, DeletedNone)} :
           /\ db' = applied.db
           /\ collector' = collected
           /\ issued' = applied.issued
           /\ returned' = _for_table(collected, 1)
           /\ signals' = send_additional_field_updated_signals(collected)
    /\ request' = [op |-> "update", table |-> 1, field |-> 22, single |-> TRUE,
                   values |-> [x \in {r} |-> Num(v)],
                   old |-> [x \in {r} |-> db.cells[22][r]]]
    /\ UNCHANGED <<phase, adds, raised, tree, call, before, fieldVars, typerVars,
                   existing, orderVars, jobVars, importVars, cleanupVars, filterVars,
                   logVars, lowerVars>>

NextDiamond == \E r \in RowIds, v \in 1..MaxValue : UpdateValue(r, v)

SpecDiamond == InitDiamond /\ [][NextDiamond]_vars

(***************************************************************************)
(* SpecFields: the field handler serving requests to create, alter, trash  *)
(* and restore fields.  response is the last request and the error it was  *)
(* rejected with; previous holds the fields, dependencies and rows from    *)
(* before that request.                                                    *)
(***************************************************************************)
InitFields ==
    /\ db = InitialRows
    /\ fields = InitialFields
    /\ dependencies = {}
    /\ response = NoResponse
    /\ previous = World(InitialFields, {}, InitialRows)
    /\ existing = RowIds
    /\ LowerIdle
    /\ LogIdle
    /\ FilterIdle
    /\ CleanupIdle
    /\ ImportIdle
    /\ JobsIdle
    /\ OrderIdle
    /\ TyperIdle
    /\ collector = NoCollector
    /\ phase = "idle"
    /\ adds = 0
    /\ raised = "no"
    /\ issued = <<>>
    /\ returned = <<>>
    /\ signals = <<>>
    /\ tree = NoTree
    /\ call = NoCall
    /\ before = NoTree
    /\ request = NoRequest

\* The request served as op: the world becomes w unless error rejects it.
Serve(op, f, e, error, w) ==
    /\ response' = Response(op, f, e, error)
    /\ previous' = World(fields, dependencies, db)
    /\ fields' = IF error = "" THEN w.fields ELSE fields
    /\ dependencies' = IF error = "" THEN w.dependencies ELSE dependencies
    /\ db' = IF error = "" THEN w.db ELSE db
    /\ UNCHANGED <<collector, phase, adds, raised, issued, returned, signals, addVars,
                   typerVars, existing, orderVars, jobVars, importVars, cleanupVars,
                   filterVars, logVars, lowerVars>>

\* FieldHandler.create_field of a formula field.
CreateField(f, e) ==
    /\ fields[f].status = "absent"
    /\ \E error \in {RequestError(fields, dependencies, f, e)} :
           \E w \in {IF error = "" THEN WithFormula(World(fields, dependencies, db), f, e)
                     ELSE World(fields, dependencies, db)} :
               Serve("create", f, e, error, w)

\* FieldHandler.update_field of a formula field.
UpdateField(f, e) ==
    /\ fields[f].status = "live"
    /\ fields[f].formula # e
    /\ \E error \in {RequestError(fields, dependencies, f, e)} :
           \E w \in {IF error = "" THEN WithFormula(World(fields, dependencies, db), f, e)
                     ELSE World(fields, dependencies, db)} :
               Serve("update", f, e, error, w)

\* FieldHandler.delete_field: the field goes to the trash, a link row field
\* with its reciprocal field.
DeleteField(c) ==
    /\ fields[c].status = "live"
    /\ \E w \in {TrashedEach(World(fields, dependencies, db), WithRelatedField(c))} :
           Serve("delete", c, NoFormula, "", w)

\* TrashHandler.restore_item of a field.
RestoreField(c) ==
    /\ fields[c].status = "trashed"
    /\ \E w \in {RestoredEach(World(fields, dependencies, db), WithRelatedField(c))} :
           Serve("restore", c, NoFormula, "", w)

NextFields ==
    \/ \E f \in FormulaFields, e \in Formulas : CreateField(f, e)
    \/ \E f \in FormulaFields, e \in Formulas : UpdateField(f, e)
    \/ \E c \in TrashableFields : DeleteField(c)
    \/ \E c \in TrashableFields : RestoreField(c)

SpecFields == InitFields /\ [][NextFields]_vars

(***************************************************************************)
(* The specification of rows written while fields are invalid: field 1 of  *)
(* table 1 looks up field 21 through link row field 11, field 2 refers to  *)
(* field 1 or to the number field 22.  The link row field, the field       *)
(* looked up or the whole of table 2 are deleted and restored, and rows of *)
(* table 1 are created and updated meanwhile.                              *)
(***************************************************************************)
\* What lowering a formula that has no valid type raises.
LoweringError == [t |-> "error"]

\* tree_to_django_expression on the formula of field f for row r.
Lowered(fs, d, f, r) ==
    IF TypedFormula(fs, fs[f].formula).expression_type.formula_type = "invalid"
    THEN LoweringError
    ELSE EvaluateFormula(d, TypedFormula(fs, fs[f].formula), r)

\* A pre_save that lowers the formula whether the field has an error or not.
pre_save_whatever_the_error(fs, d, f, r) == Lowered(fs, d, f, r)

\* ExpressionField.pre_save for row r: with an error the value the row
\* already has, otherwise the formula's value.
pre_save(fs, d, f, r) ==
    IF fs[f].error # NoError THEN d.cells[f][r] ELSE Lowered(fs, d, f, r)

\* The rows once row r is saved: formula field 1, then formula field 2.
SaveRow(fs, d, r) ==
    LET first == [d EXCEPT !.cells[1][r] = pre_save(fs, d, 1, r)]
    IN [first EXCEPT !.cells[2][r] = pre_save(fs, first, 2, r)]

\* Whether saving row r raised.
SaveRaised(d, r) == \E f \in FormulaFields : d.cells[f][r] = LoweringError

\* The values a row request gives the number field 22.
RowValues == {Num(1), Num(2)}

\* The formulas of field 2.
DependantFormulas == {FieldReference(1), FieldReference(22), FieldReference(11)}

InitInvalid ==
    /\ \E e \in DependantFormulas :
           \E w \in {WithFormula(WithFormula(World(InitialFields, {}, InitialRows),
                                             1, LookupReference(11, 21)),
                                 2, e)} :
               /\ db = w.db
               /\ fields = w.fields
               /\ dependencies = w.dependencies
    /\ response = NoResponse
    /\ previous = World(InitialFields, {}, InitialRows)
    /\ existing = RowIds \ {MaxRows}
    /\ LowerIdle
    /\ LogIdle
    /\ OrderIdle
    /\ TyperIdle
    /\ JobsIdle
    /\ FilterIdle
    /\ CleanupIdle
    /\ ImportIdle
    /\ collector = NoCollector
    /\ phase = "idle"
    /\ adds = 0
    /\ raised = "no"
    /\ issued = <<>>
    /\ returned = <<>>
    /\ signals = <<>>
    /\ tree = NoTree
    /\ call = NoCall
    /\ before = NoTree
    /\ request = NoRequest

\* The request op to write v to field 22 of row r answered: the rows become
\* d unless saving raised.
ServeRow(op, r, v, d) ==
    /\ request' = [op |-> op, table |-> 1, field |-> 22, single |-> TRUE,
                   values |-> [x \in {r} |-> v],
                   old |-> [x \in {r} |-> db.cells[22][r]]]
    /\ response' = Response(op, NoField, NoFormula,
                            IF SaveRaised(d, r) THEN "raised" ELSE "")
    /\ previous' = World(fields, dependencies, db)
    /\ db' = IF SaveRaised(d, r) THEN db ELSE d
    /\ UNCHANGED <<fields, dependencies, collector, phase, adds, raised, issued,
                   returned, signals, tree, call, before, typerVars, orderVars,
                   jobVars, importVars, cleanupVars, filterVars, logVars, lowerVars>>

\* RowHandler.create_row on table 1: a new row with v in field 22, its
\* formula cells empty until they are saved.
CreateRow(r, v) ==
    /\ r \notin existing
    /\ \E d \in {SaveRow(fields,
                         [db EXCEPT !.cells =
                             [f \in CellFields |->
                                 IF f = 22 THEN [db.cells[f] EXCEPT ![r] = v]
                                 ELSE IF f \in FormulaFields
                                 THEN [db.cells[f] EXCEPT ![r] = Null]
                                 ELSE db.cells[f]]],
                         r)} :
           /\ ServeRow("create_row", r, v, d)
           /\ existing' = IF SaveRaised(d, r) THEN existing ELSE existing \cup {r}

\* RowHandler.update_row_by_id on table 1: row r gets v in field 22.
UpdateRow(r, v) ==
    /\ r \in existing
    /\ \E d \in {SaveRow(fields, [db EXCEPT !.cells[22][r] = v], r)} :
           ServeRow("update_row", r, v, d)
    /\ UNCHANGED existing

\* The fields that go to the trash with table t: its own fields and the
\* link row fields of other tables leading to it.
TableFields(t) ==
    {f \in SchemaFields :
        \/ FieldTable(f) = t
        \/ f \in LinkRowFields /\ LinkRowTable(f) = t}

\* The order in which the fields of a table are trashed: link row fields,
\* then the other fields, a field before the formula fields referring to it.
TrashOrder == <<11, 12, 21, 22, 1, 2>>

\* The fields of S in the order of order.
InOrder(S, order) == SelectSeq(order, LAMBDA c : c \in S)

\* Whether nothing is left of table t to delete: its number field is in the
\* trash, which for table 1 only the deletion of the table does.
TableTrashed(fs, t) == fs[IF t = 1 THEN 22 ELSE 21].status = "trashed"

\* TableHandler.delete_table of table t: its fields and the link row fields
\* leading to it go to the trash.
DeleteTable(t) ==
    /\ ~TableTrashed(fields, t)
    /\ \E w \in {TrashedEach(World(fields, dependencies, db),
                            InOrder(TableFields(t), TrashOrder))} :
           Serve("delete_table", NoField, NoFormula, "", w)

\* TrashHandler.restore_item of table t: its fields and the link row fields
\* leading to it come back, a field before the formula fields referring to
\* it.  Table 2 comes back only while table 1, which owns the link row
\* field leading to it, is there.
RestoreTable(t) ==
    /\ \A c \in TableFields(t) : fields[c].status = "trashed"
    /\ t = 2 => ~TableTrashed(fields, 1)
    /\ \E w \in {RestoredEach(World(fields, dependencies, db),
                             InOrder(TableFields(t), TrashOrder))} :
           Serve("restore_table", NoField, NoFormula, "", w)

NextInvalid ==
    \/ \E c \in {11, 12, 21} : DeleteField(c)
    \/ \E c \in {11, 12, 21} :
           /\ c \in LinkRowFields => ~TableTrashed(fields, 1)
           /\ RestoreField(c)
    \/ \E t \in {1, 2} : DeleteTable(t)
    \/ \E t \in {1, 2} : RestoreTable(t)
    \/ \E r \in RowIds, v \in RowValues : ~TableTrashed(fields, 1) /\ CreateRow(r, v)
    \/ \E r \in RowIds, v \in RowValues : ~TableTrashed(fields, 1) /\ UpdateRow(r, v)

SpecInvalid == InitInvalid /\ [][NextInvalid]_vars

(***************************************************************************)
(* The specification of the formula typer: a formula over the literals and *)
(* the number field 22 of table 1 is typed, then the cells of a formula    *)
(* field holding it are calculated for every row in one bulk update.       *)
(***************************************************************************)
\* The cells field 22 may hold.
TyperCells == {Null, Num(0), Num(1), Num(2)}
TyperRowStores ==
    {[InitialRows EXCEPT !.cells[22] = c] : c \in [RowIds -> TyperCells]}

TyperAtoms ==
    {StringLiteral(<<1>>), StringLiteral(<<10>>), StringLiteral(<<Space, 10>>),
     StringLiteral(<<10, Space>>), IntLiteral(0), IntLiteral(1), IntLiteral(2),
     IntLiteral(3), FieldReference(22)}
OneArgumentFunctions == {"upper", "totext", "trim"}
TwoArgumentFunctions == {"equal", "not_equal", "divide", "when_empty", "concat"}

\* The formulas handed to the typer.
TyperFormulas ==
    TyperAtoms
        \cup {FunctionCall(fn, <<a>>) : fn \in OneArgumentFunctions, a \in TyperAtoms}
        \cup {FunctionCall(fn, <<a, b>>) :
                 fn \in TwoArgumentFunctions, a \in TyperAtoms, b \in TyperAtoms}

InitTyper ==
    /\ db \in TyperRowStores
    /\ fields = InitialFields
    /\ dependencies = {}
    /\ response = NoResponse
    /\ previous = World(InitialFields, {}, InitialRows)
    /\ existing = RowIds
    /\ LowerIdle
    /\ LogIdle
    /\ FilterIdle
    /\ CleanupIdle
    /\ ImportIdle
    /\ JobsIdle
    /\ OrderIdle
    /\ expression \in TyperFormulas
    /\ typed = NotTyped
    /\ cell_values = NoValues
    /\ collector = NoCollector
    /\ phase = "idle"
    /\ adds = 0
    /\ raised = "no"
    /\ issued = <<>>
    /\ returned = <<>>
    /\ signals = <<>>
    /\ tree = NoTree
    /\ call = NoCall
    /\ before = NoTree
    /\ request = NoRequest

\* The formula is parsed and typed.
TypeFormula ==
    /\ typed = NotTyped
    /\ typed' = TypedFormula(fields, expression)
    /\ UNCHANGED <<db, collector, phase, adds, raised, issued, returned, signals,
                   addVars, fieldVars, expression, cell_values, existing, orderVars,
                   jobVars, importVars, cleanupVars, filterVars, logVars, lowerVars>>

\* ExpressionField.pre_save in the bulk update of every row: the cells are
\* calculated from the typed formula, or left null when it has an error.
RecalculateCells ==
    /\ typed # NotTyped
    /\ cell_values' = [r \in RowIds |->
                          IF typed.expression_type.formula_type = "invalid"
                          THEN Null
                          ELSE EvaluateFormula(db, typed, r)]
    /\ UNCHANGED <<db, collector, phase, adds, raised, issued, returned, signals,
                   addVars, fieldVars, expression, typed, existing, orderVars, jobVars,
                   importVars, cleanupVars, filterVars, logVars, lowerVars>>

NextTyper ==
    \/ TypeFormula
    \/ RecalculateCells

SpecTyper == InitTyper /\ [][NextTyper]_vars

(***************************************************************************)
(* The specification of the typing of sums: any two expressions of the    *)
(* types text, number, boolean, date and date interval are added, and the *)
(* sum is typed.                                                           *)
(***************************************************************************)
Summands ==
    {StringLiteral(<<10>>), StringLiteral(<<11>>), IntLiteral(1), IntLiteral(2),
     BooleanLiteral(1), BooleanLiteral(0), FieldReference(22),
     FunctionCall("todate", <<StringLiteral(<<1>>), StringLiteral(<<10>>)>>),
     FunctionCall("todate", <<StringLiteral(<<2>>), StringLiteral(<<10>>)>>),
     FunctionCall("date_interval", <<StringLiteral(<<10>>)>>),
     FunctionCall("date_interval", <<StringLiteral(<<11>>)>>)}

Sums == {FunctionCall("add", <<a, b>>) : a \in Summands, b \in Summands}

InitSums ==
    /\ db = InitialRows
    /\ fields = InitialFields
    /\ dependencies = {}
    /\ response = NoResponse
    /\ previous = World(InitialFields, {}, InitialRows)
    /\ existing = RowIds
    /\ LowerIdle
    /\ LogIdle
    /\ FilterIdle
    /\ CleanupIdle
    /\ ImportIdle
    /\ JobsIdle
    /\ OrderIdle
    /\ expression \in Sums
    /\ typed = NotTyped
    /\ cell_values = NoValues
    /\ collector = NoCollector
    /\ phase = "idle"
    /\ adds = 0
    /\ raised = "no"
    /\ issued = <<>>
    /\ returned = <<>>
    /\ signals = <<>>
    /\ tree = NoTree
    /\ call = NoCall
    /\ before = NoTree
    /\ request = NoRequest

\* The sum is typed: its arguments first, then the call of add on them.
TypeSum ==
    /\ typed = NotTyped
    /\ typed' = TypedExpression(fields, expression)
    /\ UNCHANGED <<db, collector, phase, adds, raised, issued, returned, signals,
                   addVars, fieldVars, expression, cell_values, existing, orderVars,
                   jobVars, importVars, cleanupVars, filterVars, logVars, lowerVars>>

NextSums == TypeSum

SpecSums == InitSums /\ [][NextSums]_vars

(***************************************************************************)
(* The specification of the aggregation over pending joins: row 1 of table *)
(* 1 has a lookup through link row field 11 of field 21 of table 2, or     *)
(* through 11 and then 13 of field 5 of table 3, and the join of its       *)
(* texts.  Rows are related to row 1 one at a time and rows of the linked  *)
(* tables are moved to the end of their table.                             *)
(***************************************************************************)
Orders == 1..MaxOrder

\* The lookups: one pending join, or two.
PendingJoins ==
    {<<PendingJoin(<<11>>)>>, <<PendingJoin(<<11>>), PendingJoin(<<11, 13>>)>>}

\* The field looked up at the end of the pending joins.
TargetField(pending_joins) ==
    IF pending_joins[Len(pending_joins)].join_table = 2 THEN 21 ELSE 5

\* The relationships of link row field 13 inserted in ascending or in
\* descending order of the rows.
Relationships13 ==
    LET pairs == [i \in 1..(MaxRows * MaxRows) |->
                     <<((i - 1) \div MaxRows) + 1, ((i - 1) % MaxRows) + 1>>]
    IN {pairs, Reversed(pairs)}

\* The value of the lookup and of its join on row 1 after the request op.
Aggregate(op, thr, pending_joins, ro, d) ==
    [op |-> op,
     array |-> BaserowArrayAgg(thr, pending_joins, ro, d,
                               TargetField(pending_joins), 1),
     text |-> BaserowStringAgg(thr, pending_joins, ro, d,
                               TargetField(pending_joins), <<Space>>, 1)]

InitOrder ==
    /\ db = [InitialRows EXCEPT !.cells[5] = [r \in RowIds |-> Num(r)]]
    /\ row_order \in [{2, 3} -> [RowIds -> Orders]]
    /\ \E relationships \in Relationships13 :
           through = [l \in {11, 13} |-> IF l = 11 THEN <<>> ELSE relationships]
    /\ joins \in PendingJoins
    /\ aggregated = Aggregate("create", through, joins, row_order, db)
    /\ fields = InitialFields
    /\ dependencies = {}
    /\ response = NoResponse
    /\ previous = World(InitialFields, {}, InitialRows)
    /\ existing = RowIds
    /\ LowerIdle
    /\ LogIdle
    /\ FilterIdle
    /\ CleanupIdle
    /\ ImportIdle
    /\ JobsIdle
    /\ TyperIdle
    /\ collector = NoCollector
    /\ phase = "idle"
    /\ adds = 0
    /\ raised = "no"
    /\ issued = <<>>
    /\ returned = <<>>
    /\ signals = <<>>
    /\ tree = NoTree
    /\ call = NoCall
    /\ before = NoTree
    /\ request = NoRequest

\* table_row.linkrowfield.add(o): row 1 of table 1 gets related to row o of
\* table 2.
AddRelationship(o) ==
    /\ \A i \in 1..Len(through[11]) : through[11][i] # <<1, o>>
    /\ through' = [through EXCEPT ![11] = Append(@, <<1, o>>)]
    /\ aggregated' = Aggregate("add", through', joins, row_order, db)
    /\ UNCHANGED <<db, collector, phase, adds, raised, issued, returned, signals,
                   addVars, fieldVars, typerVars, existing, row_order, joins, jobVars,
                   importVars, cleanupVars, filterVars, logVars, lowerVars>>

\* PATCH api:database:rows:move without a row to move before: row a of table
\* t gets an order after every row of the table.
MoveRow(t, a) ==
    /\ \A r \in RowIds : row_order[t][r] < MaxOrder
    /\ row_order' = [row_order EXCEPT
                        ![t][a] = 1 + MaxOf({row_order[t][r] : r \in RowIds})]
    /\ aggregated' = Aggregate("move", through, joins, row_order', db)
    /\ UNCHANGED <<db, collector, phase, adds, raised, issued, returned, signals,
                   addVars, fieldVars, typerVars, existing, through, joins, jobVars,
                   importVars, cleanupVars, filterVars, logVars, lowerVars>>

NextOrder ==
    \/ \E o \in RowIds : AddRelationship(o)
    \/ \E t \in {2, 3}, a \in RowIds : MoveRow(t, a)

SpecOrder == InitOrder /\ [][NextOrder]_vars

(***************************************************************************)
(* The specification of the elements of the aggregated array: as above,   *)
(* with a third lookup that goes through 11, through 13 to table 3 and    *)
(* through 14 back to table 2, of field 21.                               *)
(***************************************************************************)
LookupChains ==
    PendingJoins
        \cup {<<PendingJoin(<<11>>), PendingJoin(<<11, 13>>), PendingJoin(<<11, 13, 14>>)>>}

\* The relationships seen from the reciprocal field.
Reciprocal(relationships) ==
    [i \in 1..Len(relationships) |-> <<relationships[i][2], relationships[i][1]>>]

InitElements ==
    /\ db = [InitialRows EXCEPT !.cells[5] = [r \in RowIds |-> Num(r)]]
    /\ row_order \in [{2, 3} -> [RowIds -> Orders]]
    /\ \E relationships \in Relationships13 :
           through = [l \in {11, 13, 14} |->
                         IF l = 11 THEN <<>>
                         ELSE IF l = 13 THEN relationships
                         ELSE Reciprocal(relationships)]
    /\ joins \in LookupChains
    /\ aggregated = Aggregate("create", through, joins, row_order, db)
    /\ fields = InitialFields
    /\ dependencies = {}
    /\ response = NoResponse
    /\ previous = World(InitialFields, {}, InitialRows)
    /\ existing = RowIds
    /\ LowerIdle
    /\ LogIdle
    /\ FilterIdle
    /\ CleanupIdle
    /\ ImportIdle
    /\ JobsIdle
    /\ TyperIdle
    /\ collector = NoCollector
    /\ phase = "idle"
    /\ adds = 0
    /\ raised = "no"
    /\ issued = <<>>
    /\ returned = <<>>
    /\ signals = <<>>
    /\ tree = NoTree
    /\ call = NoCall
    /\ before = NoTree
    /\ request = NoRequest

SpecElements == InitElements /\ [][NextOrder]_vars

(***************************************************************************)
(* The lowering of a lookup under an aggregate.  Call 1 is an array_agg   *)
(* or a subquery call, its argument, call 2, a db_lookup call whose       *)
(* target is the name of a field or another db_lookup call, call 3.  The  *)
(* links of a db_lookup are link row fields that fit: each is a field of  *)
(* the table the link before it leads to.                                 *)
(***************************************************************************)
MaxOutcomes == 3

NoJoin == [join_path |-> <<>>, join_table |-> 0]

\* A function call with what the tree keeps on it: no pending join yet.  A
\* parent or a target call that is not one of the calls is none.
BaserowFunctionCall(fn, links, target_call, target_literal, parent, many) ==
    [fn |-> fn, links |-> links, target_call |-> target_call,
     target_literal |-> target_literal, parent |-> parent,
     pending_joins |-> <<>>, many |-> many]

\* func_call.get_last_parent_join(): the last pending join of the parent,
\* if it has one.
get_last_parent_join(calls, n) ==
    IF calls[n].parent \notin DOMAIN calls THEN NoJoin
    ELSE IF calls[calls[n].parent].pending_joins = <<>> THEN NoJoin
    ELSE calls[calls[n].parent].pending_joins[Len(calls[calls[n].parent].pending_joins)]

\* A db_lookup that starts every path at its own first link.
DbLookupPendingJoins_own_links_only(links, parent_last_join) ==
    [i \in 1..Len(links) |-> PendingJoin(SubSeq(links, 1, i))]

\* BaserowDbLookup.to_django_expression_given_args, the pending joins of the
\* link arguments: path_so_far starts as the path of the parent's last join
\* and gets every link appended in turn.
DbLookupPendingJoins(links, parent_last_join) ==
    [i \in 1..Len(links) |->
        PendingJoin(parent_last_join.join_path \o SubSeq(links, 1, i))]

\* BaserowDbLookup.to_django_expression_given_args on call n: the pending
\* joins of the links are put on the call, the target is lowered (a name as
\* a db_field call, which has no pending join, a call as itself) and the
\* pending joins of the target are added to the call.
RECURSIVE BaserowDbLookup_to_django_expression(_, _)
BaserowDbLookup_to_django_expression(calls, n) ==
    LET assigned == [calls EXCEPT ![n].pending_joins =
                        DbLookupPendingJoins(calls[n].links,
                                             get_last_parent_join(calls, n))]
    IN IF calls[n].target_call \notin DOMAIN calls
       THEN [calls |-> assigned, expr |-> [column |-> calls[n].target_literal]]
       ELSE LET target == BaserowDbLookup_to_django_expression(assigned, calls[n].target_call)
            IN [calls |-> [target.calls EXCEPT ![n].pending_joins =
                              @ \o target.calls[calls[n].target_call].pending_joins],
                expr |-> target.expr]

\* A subquery that leaves the call as it was.
BaserowSubquery_to_django_expression_keeps_joins(calls, n, inner) ==
    [calls |-> calls,
     expr |-> [annotations |-> calls[n].pending_joins,
               not_null |-> {calls[n].pending_joins[i].join_path :
                                i \in 1..Len(calls[n].pending_joins)},
               inner |-> inner]]

\* BaserowSubquery.to_django_expression_given_args with call n: a filtered
\* relation and a not null filter for every pending join of the call around
\* the inner expression; then the call has no pending join and is not many.
BaserowSubquery_to_django_expression(calls, n, inner) ==
    [calls |-> [calls EXCEPT ![n].pending_joins = <<>>, ![n].many = FALSE],
     expr |-> [annotations |-> calls[n].pending_joins,
               not_null |-> {calls[n].pending_joins[i].join_path :
                                i \in 1..Len(calls[n].pending_joins)},
               inner |-> inner]]

\* BaserowArrayAgg.to_django_expression_given_args with call n: the JSON
\* object of the value and the id of the only join, or the ids of the
\* joins by join_table, aggregated in the order of the ordering keys and
\* handed to the subquery.
BaserowArrayAgg_to_django_expression(calls, n, value) ==
    BaserowSubquery_to_django_expression(calls, n,
        [value |-> value,
         id |-> IF Len(calls[n].pending_joins) > 1 THEN <<>>
                ELSE calls[n].pending_joins[1].join_path,
         ids |-> IF Len(calls[n].pending_joins) > 1
                 THEN JoinTableIds(calls[n].pending_joins,
                                   [i \in 1..Len(calls[n].pending_joins) |->
                                       calls[n].pending_joins[i].join_path])
                 ELSE <<>>,
         ordering |-> _calculate_aggregate_orders(calls[n].pending_joins)])

\* The lowering of the formula: the argument of call 1 is lowered, call 1
\* gets the pending joins of its argument and is lowered itself.
ToDjangoExpression(calls) ==
    LET arg == BaserowDbLookup_to_django_expression(calls, 2)
        carried == [arg.calls EXCEPT ![1].pending_joins = @ \o arg.calls[2].pending_joins]
    IN IF calls[1].fn = "array_agg"
       THEN BaserowArrayAgg_to_django_expression(carried, 1, arg.expr)
       ELSE BaserowSubquery_to_django_expression(carried, 1, arg.expr)

\* BaserowSubquery.type_function and BaserowArrayAgg.type_function on call
\* 1: a subquery call is not many afterwards and has the type of its
\* argument, whether the argument is many or not (the invalid type made for
\* an argument that is not many is not returned); an array_agg call is an
\* array.
TypeCall(calls) ==
    IF calls[1].fn = "subquery"
    THEN [calls |-> [calls EXCEPT ![1].many = FALSE],
          type |-> ValidType("number")]
    ELSE [calls |-> calls, type |-> ValidType("array")]

\* The lookups: one or two links and a field, or a lookup of a lookup.
LookupShapes ==
    {[links |-> <<11>>, nested |-> <<>>, field |-> 21],
     [links |-> <<11, 13>>, nested |-> <<>>, field |-> 5],
     [links |-> <<11>>, nested |-> <<13>>, field |-> 5],
     [links |-> <<11, 13>>, nested |-> <<14>>, field |-> 21],
     [links |-> <<11>>, nested |-> <<12>>, field |-> 22]}

\* The calls of the formula of a shape under the aggregate fn.
FormulaCalls(fn, many, shape) ==
    IF shape.nested = <<>>
    THEN <<BaserowFunctionCall(fn, <<>>, 2, NoField, 0, many),
           BaserowFunctionCall("db_lookup", shape.links, 0, shape.field, 1, TRUE)>>
    ELSE <<BaserowFunctionCall(fn, <<>>, 2, NoField, 0, many),
           BaserowFunctionCall("db_lookup", shape.links, 3, NoField, 1, TRUE),
           BaserowFunctionCall("db_lookup", shape.nested, 0, shape.field, 2, TRUE)>>

InitLower ==
    /\ \E fn \in {"array_agg", "subquery"}, many \in BOOLEAN, shape \in LookupShapes :
           func_calls = FormulaCalls(fn, many, shape)
    /\ outcomes = <<>>
    /\ db = InitialRows
    /\ fields = InitialFields
    /\ dependencies = {}
    /\ response = NoResponse
    /\ previous = World(InitialFields, {}, InitialRows)
    /\ existing = RowIds
    /\ LogIdle
    /\ FilterIdle
    /\ CleanupIdle
    /\ ImportIdle
    /\ JobsIdle
    /\ OrderIdle
    /\ TyperIdle
    /\ collector = NoCollector
    /\ phase = "idle"
    /\ adds = 0
    /\ raised = "no"
    /\ issued = <<>>
    /\ returned = <<>>
    /\ signals = <<>>
    /\ tree = NoTree
    /\ call = NoCall
    /\ before = NoTree
    /\ request = NoRequest

\* The formula is typed.
TypeCalls ==
    /\ Len(outcomes) < MaxOutcomes
    /\ \E typed_calls \in {TypeCall(func_calls)} :
           /\ func_calls' = typed_calls.calls
           /\ outcomes' = Append(outcomes, [op |-> "type", result |-> typed_calls.type])
    /\ UNCHANGED <<db, collector, phase, adds, raised, issued, returned, signals,
                   addVars, fieldVars, typerVars, existing, orderVars, jobVars,
                   importVars, cleanupVars, filterVars, logVars>>

\* The formula is lowered.
LowerCalls ==
    /\ Len(outcomes) < MaxOutcomes
    /\ \E lowered \in {ToDjangoExpression(func_calls)} :
           /\ func_calls' = lowered.calls
           /\ outcomes' = Append(outcomes, [op |-> "lower", result |-> lowered.expr])
    /\ UNCHANGED <<db, collector, phase, adds, raised, issued, returned, signals,
                   addVars, fieldVars, typerVars, existing, orderVars, jobVars,
                   importVars, cleanupVars, filterVars, logVars>>

NextLower ==
    \/ TypeCalls
    \/ LowerCalls

SpecLower == InitLower /\ [][NextLower]_vars

(***************************************************************************)
(* The job runner: run_async_job runs the job type's run inside one        *)
(* transaction, publishes every progress report in the cache and, when run *)
(* has returned or raised, stores the outcome in the job's row.  Readers   *)
(* on another database connection get the committed row and the cache.     *)
(***************************************************************************)
ProgressTotal == 100
ProgressSteps == {25, 50}

\* The state argument of progress.increment: None or a state of the job
\* type's own.
NoState == ""
ReportedStates == {NoState, "test"}

JobTypes == {"job_type", "custom_job_type"}

\* JobType.job_exceptions_map: the exception classes the job type has a
\* message for; empty unless the job type overrides it.
job_exceptions_map(type) ==
    IF type = "custom_job_type"
    THEN [class \in {"ConnectionError"} |-> "Error message"]
    ELSE [class \in {} |-> ""]

\* The exceptions run raises in the tests, each with str(exception).
Exceptions ==
    {[class |-> "Exception", text |-> "test-1"],
     [class |-> "SoftTimeLimitExceeded",
      text |-> "SoftTimeLimitExceeded('test',)"],
     [class |-> "ConnectionError", text |-> "connection error"]}

TimedOutMessage(type) ==
    IF type = "custom_job_type"
    THEN "The custom_job_type job took too long and was timed out."
    ELSE "The job_type job took too long and was timed out."

GenericMessage(type) ==
    IF type = "custom_job_type"
    THEN "Something went wrong during the custom_job_type job execution."
    ELSE "Something went wrong during the job_type job execution."

human_readable_error_generic(type, exception) == GenericMessage(type)

\* The message for the user: the job type's own message for a mapped class,
\* the timed out message for the soft time limit, the generic one otherwise.
human_readable_error(type, exception) ==
    IF exception.class \in DOMAIN job_exceptions_map(type)
    THEN job_exceptions_map(type)[exception.class]
    ELSE IF exception.class = "SoftTimeLimitExceeded"
         THEN TimedOutMessage(type)
         ELSE GenericMessage(type)

\* cache.get(job_progress_key(self.id), default={}): the dict under the
\* key, the empty dict when there is none.
cache_get(c) == IF c.entry THEN c.value ELSE <<>>

cache_set(row) ==
    [entry |-> TRUE,
     value |-> [progress_percentage |-> row.progress_percentage,
                state |-> row.state]]

cache_delete_nothing(c) == c

cache_delete(c) == NoEntry

get_from_self(c, self, name) == self[name]

get_from_cached_value_or_from_self(c, self, name) ==
    IF name \in DOMAIN cache_get(c) THEN cache_get(c)[name] ELSE self[name]

get_cached_progress_percentage(c, self) ==
    get_from_cached_value_or_from_self(c, self, "progress_percentage")

get_cached_state(c, self) ==
    get_from_cached_value_or_from_self(c, self, "state")

\* Job.objects.using("default-copy").get(pk=job.id) and the two cached
\* getters on the row it returns, with where the task was at that moment.
Observation(pc, c, row) ==
    [at |-> pc,
     progress_percentage |-> row.progress_percentage,
     state |-> row.state,
     cached_progress_percentage |-> get_cached_progress_percentage(c, row),
     cached_state |-> get_cached_state(c, row)]

\* What the cache may hold under the job's key before the run reports
\* anything: nothing, an empty dict, or a dict without the state.
InitialEntries ==
    {NoEntry,
     [entry |-> TRUE, value |-> <<>>],
     [entry |-> TRUE, value |-> [progress_percentage |-> 25]]}

InitJobs ==
    /\ db = InitialRows
    /\ fields = InitialFields
    /\ dependencies = {}
    /\ response = NoResponse
    /\ previous = World(InitialFields, {}, InitialRows)
    /\ existing = RowIds
    /\ LowerIdle
    /\ LogIdle
    /\ FilterIdle
    /\ CleanupIdle
    /\ ImportIdle
    /\ OrderIdle
    /\ TyperIdle
    /\ collector = NoCollector
    /\ phase = "idle"
    /\ adds = 0
    /\ raised = "no"
    /\ issued = <<>>
    /\ returned = <<>>
    /\ signals = <<>>
    /\ tree = NoTree
    /\ call = NoCall
    /\ before = NoTree
    /\ request = NoRequest
    /\ job = NewJob
    /\ transaction = NoTransaction
    /\ cache \in InitialEntries
    /\ task \in {[NewTask EXCEPT !.type = type] : type \in JobTypes}
    /\ reader = NoObservation

JobsUnchanged ==
    UNCHANGED <<db, collector, phase, adds, raised, issued, returned, signals,
                addVars, fieldVars, typerVars, existing, orderVars, importVars,
                   cleanupVars, filterVars, logVars, lowerVars>>

\* run_async_job(job.id): the job type's run is called inside
\* transaction.atomic().
StartRun ==
    /\ task.pc = "created"
    /\ task' = [task EXCEPT !.pc = "running", !.run_calls = @ + 1]
    /\ transaction' = [open |-> TRUE, row |-> job]
    /\ UNCHANGED <<job, cache, reader, importVars, cleanupVars, filterVars, logVars,
                   lowerVars>>
    /\ JobsUnchanged

\* progress.increment(by, state) in run: the handler's progress_updated
\* writes the row in the transaction and publishes it in the cache.
ProgressIncrement(by, state) ==
    /\ task.pc = "running"
    /\ transaction.row.progress_percentage + by <= ProgressTotal
    /\ \E row \in {[transaction.row EXCEPT
                       !.progress_percentage = @ + by,
                       !.state = IF state = NoState THEN @ ELSE state]} :
          /\ transaction' = [transaction EXCEPT !.row = row]
          /\ cache' = cache_set(row)
    /\ UNCHANGED <<job, task, reader, importVars, cleanupVars, filterVars, logVars, lowerVars>>
    /\ JobsUnchanged

\* run returns once it has reported all of its work: the transaction is
\* committed, the job finished and the cache entry deleted.
RunReturns ==
    /\ task.pc = "running"
    /\ transaction.row.progress_percentage = ProgressTotal
    /\ job' = [transaction.row EXCEPT !.state = JOB_FINISHED,
                                      !.progress_percentage = ProgressTotal]
    /\ transaction' = NoTransaction
    /\ cache' = cache_delete(cache)
    /\ task' = [task EXCEPT !.pc = "returned"]
    /\ UNCHANGED reader
    /\ JobsUnchanged

\* run raises: the transaction is rolled back, the failure stored in the
\* row, the cache entry deleted and the exception raised again.
RunRaises(exception) ==
    /\ task.pc = "running"
    /\ job' = [job EXCEPT
                 !.state = JOB_FAILED,
                 !.error = exception.text,
                 !.human_readable_error =
                     human_readable_error(task.type, exception)]
    /\ transaction' = NoTransaction
    /\ cache' = cache_delete(cache)
    /\ task' = [task EXCEPT !.pc = "raised", !.raised = exception.class]
    /\ UNCHANGED reader
    /\ JobsUnchanged

\* A reader on the second connection.
ReadJob ==
    /\ reader' = Observation(task.pc, cache, job)
    /\ UNCHANGED <<job, transaction, cache, task, importVars, cleanupVars, filterVars,
                   logVars, lowerVars>>
    /\ JobsUnchanged

NextJobs ==
    \/ StartRun
    \/ \E by \in ProgressSteps, state \in ReportedStates :
          ProgressIncrement(by, state)
    \/ RunReturns
    \/ \E exception \in Exceptions : RunRaises(exception)
    \/ ReadJob

SpecJobs == InitJobs /\ [][NextJobs]_vars

(***************************************************************************)
(* The file import: the job's run validates the rows of the file, creates  *)
(* the valid ones inside the task's transaction and reports the failing    *)
(* ones; with more failing rows than the maximum it gives up.              *)
(***************************************************************************)
MaxFileRows == 4
BASEROW_MAX_FILE_IMPORT_ERROR_COUNT == 2

\* ["test", 1, option], ["test", "bad", option] and ["test", 1, 0]: a row
\* that is imported, one that fails validation and one that fails creation.
RowKinds == {"valid", "bad_value", "bad_option"}

Files == SeqsUpTo(RowKinds, MaxFileRows)

FailingRowsOf(rows) == {i \in DOMAIN rows : rows[i] # "valid"}

TooManyErrors(failing) == Len(failing) > BASEROW_MAX_FILE_IMPORT_ERROR_COUNT

\* The failing rows the exception carries into the job's report.
ErrorReport(failing) ==
    {failing[i] : i \in 1..MaxOf({0, Len(failing) - 1})}

RolledBack_keeps_created(rows, created) == rows \cup created

\* What the table holds once the task's transaction is rolled back.
RolledBack(rows, created) == rows

InitImport ==
    /\ db = InitialRows
    /\ fields = InitialFields
    /\ dependencies = {}
    /\ response = NoResponse
    /\ previous = World(InitialFields, {}, InitialRows)
    /\ existing = RowIds
    /\ LowerIdle
    /\ LogIdle
    /\ FilterIdle
    /\ CleanupIdle
    /\ OrderIdle
    /\ TyperIdle
    /\ JobsIdle
    /\ collector = NoCollector
    /\ phase = "idle"
    /\ adds = 0
    /\ raised = "no"
    /\ issued = <<>>
    /\ returned = <<>>
    /\ signals = <<>>
    /\ tree = NoTree
    /\ call = NoCall
    /\ before = NoTree
    /\ request = NoRequest
    /\ file \in Files
    /\ table_rows = {}
    /\ import_task = NewImportTask
    /\ import_job = NewImportJob

ImportUnchanged ==
    UNCHANGED <<db, collector, phase, adds, raised, issued, returned, signals,
                addVars, fieldVars, typerVars, existing, orderVars, jobVars,
                file, cleanupVars, filterVars, logVars, lowerVars>>

\* run_async_job(job.id): the import starts in its transaction.
StartImport ==
    /\ import_task.pc = "created"
    /\ import_task' = [import_task EXCEPT !.pc = "validating"]
    /\ UNCHANGED <<table_rows, import_job, cleanupVars, filterVars, logVars, lowerVars>>
    /\ ImportUnchanged

\* Row i has failed, in the validation or in the creation: it is reported,
\* and with too many failing rows FileImportMaxErrorCountExceeded leaves
\* the run, the transaction is rolled back and the job is failed with the
\* report the exception carries.
RowFails(i, next) ==
    \E failing \in {Append(import_task.failing, i)} :
       IF TooManyErrors(failing)
       THEN /\ import_task' =
                   [import_task EXCEPT
                      !.pc = "raised",
                      !.failing = failing,
                      !.raised = "FileImportMaxErrorCountExceeded"]
            /\ table_rows' = RolledBack(table_rows, import_task.created)
            /\ import_job' =
                   [import_job EXCEPT
                      !.state = JOB_FAILED,
                      !.error = "Too many errors",
                      !.human_readable_error =
                          "This file import has raised too many errors.",
                      !.failing_rows = ErrorReport(failing)]
       ELSE /\ import_task' =
                   [import_task EXCEPT !.position = next, !.failing = failing]
            /\ UNCHANGED <<table_rows, import_job, cleanupVars, filterVars, logVars, lowerVars>>

\* The validation of the next row of the file.
ValidateRow ==
    /\ import_task.pc = "validating"
    /\ import_task.position < Len(file)
    /\ \E i \in {import_task.position + 1} :
          IF file[i] = "bad_value"
          THEN RowFails(i, i)
          ELSE /\ import_task' =
                      [import_task EXCEPT
                         !.position = i, !.valid = Append(@, i)]
               /\ UNCHANGED <<table_rows, import_job, cleanupVars, filterVars, logVars, lowerVars>>
    /\ ImportUnchanged

\* All rows are validated: the valid ones are created next.
ValidationDone ==
    /\ import_task.pc = "validating"
    /\ import_task.position = Len(file)
    /\ import_task' = [import_task EXCEPT !.pc = "creating", !.position = 0]
    /\ UNCHANGED <<table_rows, import_job, cleanupVars, filterVars, logVars, lowerVars>>
    /\ ImportUnchanged

\* The creation of the next valid row, in the transaction.
ImportRow ==
    /\ import_task.pc = "creating"
    /\ import_task.position < Len(import_task.valid)
    /\ \E n \in {import_task.position + 1} :
          \E i \in {import_task.valid[n]} :
             IF file[i] = "bad_option"
             THEN RowFails(i, n)
             ELSE /\ import_task' =
                         [import_task EXCEPT
                            !.position = n, !.created = @ \cup {i}]
                  /\ UNCHANGED <<table_rows, import_job, cleanupVars, filterVars, logVars, lowerVars>>
    /\ ImportUnchanged

\* The run returns: the transaction is committed and the job finished, with
\* the failing rows in its report.
ImportReturns ==
    /\ import_task.pc = "creating"
    /\ import_task.position = Len(import_task.valid)
    /\ import_task' = [import_task EXCEPT !.pc = "returned"]
    /\ table_rows' = table_rows \cup import_task.created
    /\ import_job' =
           [import_job EXCEPT
              !.state = JOB_FINISHED,
              !.failing_rows =
                  {import_task.failing[k] : k \in DOMAIN import_task.failing}]
    /\ ImportUnchanged

NextImport ==
    \/ StartImport
    \/ ValidateRow
    \/ ValidationDone
    \/ ImportRow
    \/ ImportReturns

SpecImport == InitImport /\ [][NextImport]_vars

(***************************************************************************)
(* The periodic clean up of the jobs: clean_up_jobs fails the jobs that    *)
(* are still running although nothing has updated them for longer than    *)
(* the soft time limit of a job.                                           *)
(***************************************************************************)
MaxTime == 4
MaxCleanups == 2
BASEROW_JOB_SOFT_TIME_LIMIT == 2

JobIds == {1, 2}
JobStates == {JOB_PENDING, "started", JOB_FINISHED, JOB_FAILED}

is_running_or_not(rows) == DOMAIN rows

\* JobQuerySet.is_running: the jobs that are neither finished nor failed.
is_running(rows) ==
    {j \in DOMAIN rows :
        rows[j].state # JOB_FINISHED /\ rows[j].state # JOB_FAILED}

\* The jobs last updated before the limit date.
UpdatedBefore(rows, limit_date) ==
    {j \in DOMAIN rows : rows[j].updated_on < limit_date}

InitCleanup ==
    /\ db = InitialRows
    /\ fields = InitialFields
    /\ dependencies = {}
    /\ response = NoResponse
    /\ previous = World(InitialFields, {}, InitialRows)
    /\ existing = RowIds
    /\ LowerIdle
    /\ LogIdle
    /\ FilterIdle
    /\ OrderIdle
    /\ TyperIdle
    /\ JobsIdle
    /\ ImportIdle
    /\ collector = NoCollector
    /\ phase = "idle"
    /\ adds = 0
    /\ raised = "no"
    /\ issued = <<>>
    /\ returned = <<>>
    /\ signals = <<>>
    /\ tree = NoTree
    /\ call = NoCall
    /\ before = NoTree
    /\ request = NoRequest
    /\ job_rows \in [JobIds -> [state : JobStates, updated_on : {0}]]
    /\ now = 0
    /\ cleanups = 0

CleanupUnchanged ==
    UNCHANGED <<db, collector, phase, adds, raised, issued, returned, signals,
                addVars, fieldVars, typerVars, existing, orderVars, jobVars,
                importVars, filterVars, logVars, lowerVars>>

TimePasses ==
    /\ now < MaxTime
    /\ now' = now + 1
    /\ UNCHANGED <<job_rows, cleanups, filterVars, logVars, lowerVars>>
    /\ CleanupUnchanged

\* A running job is saved by its task: it is started, or finished.
SaveJob(j, state) ==
    /\ j \in is_running(job_rows)
    /\ job_rows' = [job_rows EXCEPT ![j] = [state |-> state, updated_on |-> now]]
    /\ UNCHANGED <<now, cleanups, filterVars, logVars, lowerVars>>
    /\ CleanupUnchanged

\* clean_up_jobs: one update of the running jobs that were last updated
\* before now minus the soft time limit.
clean_up_jobs ==
    /\ cleanups < MaxCleanups
    /\ cleanups' = cleanups + 1
    /\ \E failed \in {is_running(job_rows) \cap
                      UpdatedBefore(job_rows, now - BASEROW_JOB_SOFT_TIME_LIMIT)} :
          job_rows' =
              [j \in DOMAIN job_rows |->
                  IF j \in failed
                  THEN [state |-> JOB_FAILED, updated_on |-> now]
                  ELSE job_rows[j]]
    /\ UNCHANGED now
    /\ CleanupUnchanged

NextCleanup ==
    \/ TimePasses
    \/ \E j \in JobIds, state \in {"started", JOB_FINISHED} : SaveJob(j, state)
    \/ clean_up_jobs

SpecCleanup == InitCleanup /\ [][NextCleanup]_vars

(***************************************************************************)
(* The undoable actions on the filters of a view: each action type's do    *)
(* changes the filters through the view handler and registers an action    *)
(* with params; undo and redo are called with the params of that action.   *)
(***************************************************************************)
MaxFilterId == 5

ViewId == 1
FilterFields == {1, 2}
FilterTypes == {"equal", "contains"}
FilterValues == {"", "a"}
\* None as the type or the value of an update; NoField is None as its field.
None == "None"

ViewFilter(id, view_id, field_id, type_name, filter_value) ==
    [id |-> id, view |-> view_id, field |-> field_id, type |-> type_name,
     value |-> filter_value]

\* ViewHandler().get_filter raises ViewFilterDoesNotExist without one.
ViewFilterDoesNotExist(filters, id) == ~\E f \in filters : f.id = id

get_filter_of_the_view(filters, id) == CHOOSE f \in filters : TRUE

get_filter(filters, id) == CHOOSE f \in filters : f.id = id

create_filter(filters, id, view_id, field_id, type_name, filter_value) ==
    filters \cup {ViewFilter(id, view_id, field_id, type_name, filter_value)}

\* ViewHandler().update_filter: an argument that is None leaves the
\* filter's own.
update_filter(view_filter, field_id, type_name, filter_value) ==
    [view_filter EXCEPT
       !.field = IF field_id = NoField THEN @ ELSE field_id,
       !.type = IF type_name = None THEN @ ELSE type_name,
       !.value = IF filter_value = None THEN @ ELSE filter_value]

Saved(filters, view_filter) ==
    {f \in filters : f.id # view_filter.id} \cup {view_filter}

delete_filter(filters, view_filter) == filters \ {view_filter}

\* cls.register_action(user, params, scope)
register_action(type, params) ==
    [type |-> type, params |-> params, is_undone |-> FALSE, error |-> ""]

with_view_filter_id_unchanged(params, id) == params

\* action.params["view_filter_id"] = view_filter.id
with_view_filter_id(params, id) == [params EXCEPT !.view_filter_id = id]

Undone(a, params) == [a EXCEPT !.params = params, !.is_undone = TRUE]
Redone(a, params) == [a EXCEPT !.params = params, !.is_undone = FALSE]
Failed(a, error) == [a EXCEPT !.error = error]

InitFilters ==
    /\ db = InitialRows
    /\ fields = InitialFields
    /\ dependencies = {}
    /\ response = NoResponse
    /\ previous = World(InitialFields, {}, InitialRows)
    /\ existing = RowIds
    /\ LowerIdle
    /\ LogIdle
    /\ OrderIdle
    /\ TyperIdle
    /\ JobsIdle
    /\ ImportIdle
    /\ CleanupIdle
    /\ collector = NoCollector
    /\ phase = "idle"
    /\ adds = 0
    /\ raised = "no"
    /\ issued = <<>>
    /\ returned = <<>>
    /\ signals = <<>>
    /\ tree = NoTree
    /\ call = NoCall
    /\ before = NoTree
    /\ request = NoRequest
    /\ \E field_id \in FilterFields, type_name \in FilterTypes,
          filter_value \in FilterValues :
          view_filters \in
              {{},
               {ViewFilter(1, ViewId, field_id, type_name, filter_value)},
               {ViewFilter(1, ViewId, field_id, type_name, filter_value),
                ViewFilter(2, ViewId, 2, "contains", "a")}}
    /\ next_filter_id = 3
    /\ action = NoAction
    /\ did = NothingDid

FiltersUnchanged ==
    UNCHANGED <<db, collector, phase, adds, raised, issued, returned, signals,
                addVars, fieldVars, typerVars, existing, orderVars, jobVars,
                importVars, cleanupVars, logVars, lowerVars>>

\* CreateViewFilterActionType.do(user, view, field, filter_type, filter_value)
CreateViewFilterActionType_do(field_id, filter_type, filter_value) ==
    /\ action = NoAction
    /\ next_filter_id <= MaxFilterId
    /\ view_filters' = create_filter(view_filters, next_filter_id, ViewId,
                                     field_id, filter_type, filter_value)
    /\ next_filter_id' = next_filter_id + 1
    /\ action' = register_action(
                     "create_view_filter",
                     [view_filter_id |-> next_filter_id, view_id |-> ViewId,
                      field_id |-> field_id, filter_type |-> filter_type,
                      filter_value |-> filter_value])
    /\ did' = [op |-> "create", view_filter_id |-> next_filter_id,
               field |-> field_id, type |-> filter_type,
               value |-> filter_value]
    /\ FiltersUnchanged

CreateViewFilterActionType_undo ==
    /\ action.type = "create_view_filter"
    /\ ~action.is_undone
    /\ action.error = ""
    /\ IF ViewFilterDoesNotExist(view_filters, action.params.view_filter_id)
       THEN /\ action' = Failed(action, "ViewFilterDoesNotExist")
            /\ UNCHANGED view_filters
       ELSE /\ view_filters' =
                   delete_filter(
                       view_filters,
                       get_filter(view_filters, action.params.view_filter_id))
            /\ action' = Undone(action, action.params)
    /\ UNCHANGED <<next_filter_id, did, logVars, lowerVars>>
    /\ FiltersUnchanged

CreateViewFilterActionType_redo ==
    /\ action.type = "create_view_filter"
    /\ action.is_undone
    /\ next_filter_id <= MaxFilterId
    /\ view_filters' = create_filter(
                           view_filters, next_filter_id, action.params.view_id,
                           action.params.field_id, action.params.filter_type,
                           action.params.filter_value)
    /\ next_filter_id' = next_filter_id + 1
    /\ action' = Redone(action, with_view_filter_id(action.params, next_filter_id))
    /\ UNCHANGED did
    /\ FiltersUnchanged

original_view_filter_after_update(view_filter, updated_view_filter) ==
    updated_view_filter

\* The filter whose field, type and value do keeps as the original ones:
\* they are read before the update.
original_view_filter(view_filter, updated_view_filter) == view_filter

\* UpdateViewFilterActionType.do(user, view_filter, field, filter_type,
\* filter_value)
UpdateViewFilterActionType_do(id, field_id, filter_type, filter_value) ==
    /\ action = NoAction
    /\ ~ViewFilterDoesNotExist(view_filters, id)
    /\ \E view_filter \in {get_filter(view_filters, id)} :
       \E updated \in {update_filter(view_filter, field_id, filter_type,
                                     filter_value)} :
       \E original \in {original_view_filter(view_filter, updated)} :
          /\ view_filters' = Saved(view_filters, updated)
          /\ action' = register_action(
                           "update_view_filter",
                           [view_filter_id |-> view_filter.id,
                            original_field_id |-> original.field,
                            original_filter_type |-> original.type,
                            original_filter_value |-> original.value,
                            new_field_id |-> updated.field,
                            new_filter_type |-> updated.type,
                            new_filter_value |-> updated.value])
          /\ did' = [op |-> "update", view_filter_id |-> id,
                     field |-> field_id, type |-> filter_type,
                     value |-> filter_value, before |-> view_filter]
    /\ UNCHANGED next_filter_id
    /\ FiltersUnchanged

UpdateViewFilterActionType_undo ==
    /\ action.type = "update_view_filter"
    /\ ~action.is_undone
    /\ action.error = ""
    /\ IF ViewFilterDoesNotExist(view_filters, action.params.view_filter_id)
       THEN /\ action' = Failed(action, "ViewFilterDoesNotExist")
            /\ UNCHANGED view_filters
       ELSE /\ view_filters' =
                   Saved(view_filters,
                         update_filter(
                             get_filter(view_filters,
                                        action.params.view_filter_id),
                             action.params.original_field_id,
                             action.params.original_filter_type,
                             action.params.original_filter_value))
            /\ action' = Undone(action, action.params)
    /\ UNCHANGED <<next_filter_id, did, logVars, lowerVars>>
    /\ FiltersUnchanged

UpdateViewFilterActionType_redo ==
    /\ action.type = "update_view_filter"
    /\ action.is_undone
    /\ action.error = ""
    /\ IF ViewFilterDoesNotExist(view_filters, action.params.view_filter_id)
       THEN /\ action' = Failed(action, "ViewFilterDoesNotExist")
            /\ UNCHANGED view_filters
       ELSE /\ view_filters' =
                   Saved(view_filters,
                         update_filter(
                             get_filter(view_filters,
                                        action.params.view_filter_id),
                             action.params.new_field_id,
                             action.params.new_filter_type,
                             action.params.new_filter_value))
            /\ action' = Redone(action, action.params)
    /\ UNCHANGED <<next_filter_id, did, logVars, lowerVars>>
    /\ FiltersUnchanged

\* DeleteViewFilterActionType.do(user, view_filter): the params are built
\* after the deletion, which has cleared the id of the instance.
DeleteViewFilterActionType_do(id) ==
    /\ action = NoAction
    /\ ~ViewFilterDoesNotExist(view_filters, id)
    /\ \E view_filter \in {get_filter(view_filters, id)} :
          /\ view_filters' = delete_filter(view_filters, view_filter)
          /\ action' = register_action(
                           "delete_view_filter",
                           [view_filter_id |-> NoFilterId,
                            view_id |-> view_filter.view,
                            field_id |-> view_filter.field,
                            filter_type |-> view_filter.type,
                            filter_value |-> view_filter.value])
          /\ did' = [op |-> "delete", view_filter_id |-> id,
                     before |-> view_filter]
    /\ UNCHANGED next_filter_id
    /\ FiltersUnchanged

DeleteViewFilterActionType_undo ==
    /\ action.type = "delete_view_filter"
    /\ ~action.is_undone
    /\ next_filter_id <= MaxFilterId
    /\ view_filters' = create_filter(
                           view_filters, next_filter_id, action.params.view_id,
                           action.params.field_id, action.params.filter_type,
                           action.params.filter_value)
    /\ next_filter_id' = next_filter_id + 1
    /\ action' = Undone(action, with_view_filter_id(action.params, next_filter_id))
    /\ UNCHANGED did
    /\ FiltersUnchanged

DeleteViewFilterActionType_redo ==
    /\ action.type = "delete_view_filter"
    /\ action.is_undone
    /\ action.error = ""
    /\ IF ViewFilterDoesNotExist(view_filters, action.params.view_filter_id)
       THEN /\ action' = Failed(action, "ViewFilterDoesNotExist")
            /\ UNCHANGED view_filters
       ELSE /\ view_filters' =
                   delete_filter(
                       view_filters,
                       get_filter(view_filters, action.params.view_filter_id))
            /\ action' = Redone(action, action.params)
    /\ UNCHANGED <<next_filter_id, did, logVars, lowerVars>>
    /\ FiltersUnchanged

NextFilters ==
    \/ \E field_id \in FilterFields, filter_type \in FilterTypes,
          filter_value \in FilterValues :
          CreateViewFilterActionType_do(field_id, filter_type, filter_value)
    \/ CreateViewFilterActionType_undo
    \/ CreateViewFilterActionType_redo
    \/ \E id \in 1..MaxFilterId, field_id \in FilterFields \cup {NoField},
          filter_type \in FilterTypes \cup {None},
          filter_value \in FilterValues \cup {None} :
          UpdateViewFilterActionType_do(id, field_id, filter_type, filter_value)
    \/ UpdateViewFilterActionType_undo
    \/ UpdateViewFilterActionType_redo
    \/ \E id \in 1..MaxFilterId : DeleteViewFilterActionType_do(id)
    \/ DeleteViewFilterActionType_undo
    \/ DeleteViewFilterActionType_redo

SpecFilters == InitFilters /\ [][NextFilters]_vars

(***************************************************************************)
(* SpecLog: a filter is created in a view and then updated, both through   *)
(* their action types, so that the view's scope holds two actions; the     *)
(* newest action that is done is undone, the oldest that is undone redone. *)
(***************************************************************************)
\* cls.undo(user, params, action_to_undo) of the type of action a: the
\* filters and the action afterwards.
ActionUndo(a, filters) ==
    IF ViewFilterDoesNotExist(filters, a.params.view_filter_id)
    THEN [filters |-> filters, action |-> Failed(a, "ViewFilterDoesNotExist")]
    ELSE LET view_filter == get_filter(filters, a.params.view_filter_id)
         IN IF a.type = "create_view_filter"
            THEN [filters |-> delete_filter(filters, view_filter),
                  action |-> Undone(a, a.params)]
            ELSE [filters |-> Saved(filters,
                                    update_filter(view_filter,
                                                  a.params.original_field_id,
                                                  a.params.original_filter_type,
                                                  a.params.original_filter_value)),
                  action |-> Undone(a, a.params)]

\* cls.redo(user, params, action_to_redo) of the type of action a, id being
\* the id a created filter gets.
ActionRedo(a, filters, id) ==
    IF a.type = "create_view_filter"
    THEN [filters |-> create_filter(filters, id, a.params.view_id,
                                    a.params.field_id, a.params.filter_type,
                                    a.params.filter_value),
          action |-> Redone(a, with_view_filter_id(a.params, id)),
          created |-> 1]
    ELSE IF ViewFilterDoesNotExist(filters, a.params.view_filter_id)
    THEN [filters |-> filters, action |-> Failed(a, "ViewFilterDoesNotExist"),
          created |-> 0]
    ELSE [filters |-> Saved(filters,
                            update_filter(
                                get_filter(filters, a.params.view_filter_id),
                                a.params.new_field_id,
                                a.params.new_filter_type,
                                a.params.new_filter_value)),
          action |-> Redone(a, a.params),
          created |-> 0]

\* The calls a behaviour is followed for.
MaxSteps == 8

InitLog ==
    /\ db = InitialRows
    /\ fields = InitialFields
    /\ dependencies = {}
    /\ response = NoResponse
    /\ previous = World(InitialFields, {}, InitialRows)
    /\ existing = RowIds
    /\ LowerIdle
    /\ OrderIdle
    /\ TyperIdle
    /\ JobsIdle
    /\ ImportIdle
    /\ CleanupIdle
    /\ collector = NoCollector
    /\ phase = "idle"
    /\ adds = 0
    /\ raised = "no"
    /\ issued = <<>>
    /\ returned = <<>>
    /\ signals = <<>>
    /\ tree = NoTree
    /\ call = NoCall
    /\ before = NoTree
    /\ request = NoRequest
    /\ view_filters = {}
    /\ next_filter_id = 1
    /\ action = NoAction
    /\ did = NothingDid
    /\ action_log = <<>>
    /\ steps = <<>>

LogUnchanged ==
    UNCHANGED <<db, collector, phase, adds, raised, issued, returned, signals,
                addVars, fieldVars, typerVars, existing, orderVars, jobVars,
                importVars, cleanupVars, action, did, lowerVars>>

\* CreateViewFilterActionType.do in a view without filters.
LogCreateViewFilter(field_id, filter_type, filter_value) ==
    /\ action_log = <<>>
    /\ view_filters' = create_filter(view_filters, next_filter_id, ViewId,
                                     field_id, filter_type, filter_value)
    /\ next_filter_id' = next_filter_id + 1
    /\ action_log' = <<register_action(
                          "create_view_filter",
                          [view_filter_id |-> next_filter_id, view_id |-> ViewId,
                           field_id |-> field_id, filter_type |-> filter_type,
                           filter_value |-> filter_value])>>
    /\ steps' = Append(steps, "do")
    /\ LogUnchanged

\* UpdateViewFilterActionType.do on the filter created.
LogUpdateViewFilter(field_id, filter_type, filter_value) ==
    /\ Len(action_log) = 1
    /\ ~action_log[1].is_undone
    /\ \E view_filter \in {get_filter(view_filters, action_log[1].params.view_filter_id)} :
       \E updated \in {update_filter(view_filter, field_id, filter_type,
                                     filter_value)} :
       \E original \in {original_view_filter(view_filter, updated)} :
          /\ view_filters' = Saved(view_filters, updated)
          /\ action_log' =
                 Append(action_log,
                        register_action(
                            "update_view_filter",
                            [view_filter_id |-> view_filter.id,
                             original_field_id |-> original.field,
                             original_filter_type |-> original.type,
                             original_filter_value |-> original.value,
                             new_field_id |-> updated.field,
                             new_filter_type |-> updated.type,
                             new_filter_value |-> updated.value]))
    /\ steps' = Append(steps, "do")
    /\ UNCHANGED next_filter_id
    /\ LogUnchanged

\* No undo or redo has raised.
NoneFailed == \A i \in 1..Len(action_log) : action_log[i].error = ""

\* The newest action of the scope that is done is undone.
UndoLatest ==
    /\ Len(action_log) = 2
    /\ Len(steps) < MaxSteps
    /\ NoneFailed
    /\ \E i \in 1..Len(action_log) :
          /\ ~action_log[i].is_undone
          /\ \A j \in (i + 1)..Len(action_log) : action_log[j].is_undone
          /\ \E r \in {ActionUndo(action_log[i], view_filters)} :
                /\ view_filters' = r.filters
                /\ action_log' = [action_log EXCEPT ![i] = r.action]
    /\ steps' = Append(steps, "undo")
    /\ UNCHANGED next_filter_id
    /\ LogUnchanged

\* The oldest action of the scope that is undone is redone.
RedoOldest ==
    /\ Len(action_log) = 2
    /\ Len(steps) < MaxSteps
    /\ NoneFailed
    /\ \E i \in 1..Len(action_log) :
          /\ action_log[i].is_undone
          /\ \A j \in 1..(i - 1) : ~action_log[j].is_undone
          /\ \E r \in {ActionRedo(action_log[i], view_filters, next_filter_id)} :
                /\ view_filters' = r.filters
                /\ action_log' = [action_log EXCEPT ![i] = r.action]
                /\ next_filter_id' = next_filter_id + r.created
    /\ steps' = Append(steps, "redo")
    /\ LogUnchanged

NextLog ==
    \/ \E field_id \in FilterFields, filter_type \in FilterTypes,
          filter_value \in FilterValues :
          LogCreateViewFilter(field_id, filter_type, filter_value)
    \/ \E field_id \in FilterFields \cup {NoField},
          filter_type \in FilterTypes \cup {None},
          filter_value \in FilterValues \cup {None} :
          LogUpdateViewFilter(field_id, filter_type, filter_value)
    \/ UndoLatest
    \/ RedoOldest

SpecLog == InitLog /\ [][NextLog]_vars

(***************************************************************************)
(* Properties of the collector.                                            *)
(***************************************************************************)
IsProperPrefix(a, b) == Len(a) < Len(b) /\ SubSeq(b, 1, Len(a)) = a

Nodes == collector.update_statement_collector

\* C2: in execute_all the bulk update of a node is issued before the bulk
\* update of every node below it, so along every path from the root the
\* updates run in order of increasing link distance from the starting table.
C2_ParentBeforeSubPaths ==
    phase \in {"applied", "sent"} =>
        /\ \A n \in 1..Len(Nodes) : \E i \in 1..Len(issued) : issued[i].key = Nodes[n].key
        /\ \A i, j \in 1..Len(issued) :
               IsProperPrefix(issued[i].key, issued[j].key) =>
                   /\ i < j
                   /\ Len(issued[i].path) < Len(issued[j].path)

\* A propagation has run over a node with statements below a node with
\* statements.
C2_Witness ==
    /\ phase = "applied"
    /\ \E i, j \in 1..Len(issued) :
           /\ IsProperPrefix(issued[i].key, issued[j].key)
           /\ DOMAIN issued[i].update_statements # {}
           /\ DOMAIN issued[j].update_statements # {}

\* C3: one execute_all issues exactly one bulk update for every node of the
\* tree, carrying every column and expression accumulated at that node,
\* however many fields the node holds and however many starting rows there are.
C3_OneUpdatePerNode ==
    phase \in {"applied", "sent"} =>
        /\ Len(issued) = Len(Nodes)
        /\ \A n \in 1..Len(Nodes) :
               /\ Cardinality({i \in 1..Len(issued) : issued[i].key = Nodes[n].key}) = 1
               /\ \A i \in 1..Len(issued) :
                      issued[i].key = Nodes[n].key =>
                          /\ issued[i].update_statements = Nodes[n].update_statements
                          /\ issued[i].table = Nodes[n].table

\* A propagation from a list of several starting rows has run over a node
\* holding two columns and over a second node.
C3_Witness ==
    /\ phase = "applied"
    /\ collector.starting_row_id.kind = "list"
    /\ Cardinality(collector.starting_row_id.ids) > 1
    /\ Len(issued) = 2
    /\ \E i \in 1..Len(issued) : Cardinality(DOMAIN issued[i].update_statements) = 2

\* The statements held by the node at key, none when there is no such node.
StatementsAt(nodes, key) ==
    IF HasNode(nodes, key) THEN NodeAt(nodes, key).update_statements ELSE <<>>

AllKeys(nodes) == {nodes[i].key : i \in 1..Len(nodes)}

\* The sub_paths keys leading from the root to the node a path ends at.
KeyOf(path) == [i \in 1..Len(path) |-> DbColumn(path[i])]

\* C4: add_update_statement raises InvalidViaPath when the table of the node
\* reached by following the path from the root is not the field's table; when
\* it is, the statement is stored at that node under the field's column and
\* nothing is stored at any other node.
C4_AddUpdateStatement ==
    (adds > 0 /\ TableAfter(before[1].table, call.path) # 0) =>
        LET reached == TableAfter(before[1].table, call.path)
            key == KeyOf(call.path)
            col == DbColumn(call.field)
        IN IF reached # FieldTable(call.field)
           THEN /\ raised # "no"
                /\ \A k \in AllKeys(tree) : StatementsAt(tree, k) = StatementsAt(before, k)
           ELSE /\ raised = "no"
                /\ HasNode(tree, key)
                /\ NodeAt(tree, key).table = reached
                /\ col \in DOMAIN StatementsAt(tree, key)
                /\ StatementsAt(tree, key)[col] = call.update_statement
                /\ DOMAIN StatementsAt(tree, key) = DOMAIN StatementsAt(before, key) \cup {col}
                /\ \A c \in DOMAIN StatementsAt(before, key) \ {col} :
                       StatementsAt(tree, key)[c] = StatementsAt(before, key)[c]
                /\ \A k \in AllKeys(tree) \ {key} :
                       StatementsAt(tree, k) = StatementsAt(before, k)

\* After a statement was stored two links away from the root, a call whose
\* path leads to a table that is not its field's table raised.
C4_Witness ==
    /\ adds = 2
    /\ raised = "field_table"
    /\ Len(call.path) = 1
    /\ TableAfter(before[1].table, call.path) \notin {0, FieldTable(call.field)}
    /\ \E i \in 1..Len(tree) :
           Len(tree[i].key) = 2 /\ DOMAIN tree[i].update_statements # {}

\* The fields registered as updated for table t, in registration order.
RegisteredFor(t) ==
    LET hit == SelectSeq(collector.updated_fields_per_table, LAMBDA e : e.table_id = t)
    IN IF hit = <<>> THEN <<>> ELSE hit[1].fields

\* C9: exactly one field_updated signal is sent for every table other than
\* the starting table that has a registered field, with the first registered
\* field as field and the remaining ones as related_fields; none is sent for
\* the starting table, whose fields apply_updates_and_get_updated_fields returns.
C9_OneSignalPerOtherTable ==
    phase = "sent" =>
        /\ \A t \in Tables :
               LET sent == {i \in 1..Len(signals) : FieldTable(signals[i].field) = t}
               IN IF t # collector.starting_table /\ RegisteredFor(t) # <<>>
                  THEN /\ Cardinality(sent) = 1
                       /\ \A i \in sent :
                              /\ signals[i].field = Head(RegisteredFor(t))
                              /\ signals[i].related_fields = Tail(RegisteredFor(t))
                  ELSE sent = {}
        /\ returned = RegisteredFor(collector.starting_table)

\* Signals were sent after a field of the starting table and a field of
\* another table were registered.
C9_Witness ==
    /\ phase = "sent"
    /\ returned # <<>>
    /\ Len(signals) = 1

(***************************************************************************)
(* Properties of the propagation on the row store.                         *)
(***************************************************************************)
\* The ids of the entries of a lookup cell.
EntryIds(cell) == {cell.v[i].id : i \in 1..Len(cell.v)}

\* C1: when a row update on table 2 removes, through its reciprocal link
\* field 12, a link to row a of table 1, then once the update has returned
\* a's lookup over the link holds no entry for the unlinked row; a row whose
\* link was kept in the same update still holds that row's entry, and a row
\* left without links holds the empty list.
C1_LookupShrinksOnUnlink ==
    request.field = 12 =>
        \A a \in RowIds :
            /\ db.cells[1][a].t = "arr"
            /\ \A b \in DOMAIN request.values :
                   /\ a \in request.old[b] \ request.values[b]
                          => b \notin EntryIds(db.cells[1][a])
                   /\ a \in request.old[b] \cap request.values[b]
                          => \E i \in 1..Len(db.cells[1][a].v) :
                                 db.cells[1][a].v[i] = [id |-> b, value |-> db.cells[21][b]]
            /\ Linked(db, 11, a) = {} => db.cells[1][a] = Arr(<<>>)

\* One batch update on table 2 dropped the last link of one row of table 1
\* and kept a link of another row of table 1.
C1_Witness ==
    /\ request.field = 12
    /\ ~request.single
    /\ \E a1, a2 \in RowIds, b1, b2 \in DOMAIN request.values :
           /\ a1 # a2
           /\ a1 \in request.old[b1] \ request.values[b1]
           /\ a2 \in request.old[b2] \cap request.values[b2]
           /\ Linked(db, 11, a1) = {}
           /\ db.cells[1][a1] = Arr(<<>>)
           /\ db.cells[1][a2] # Arr(<<>>)

\* The rows from which the chain of link row fields path leads to a row of ids.
RECURSIVE RowsJoiningBack(_, _, _)
RowsJoiningBack(d, path, ids) ==
    IF path = <<>> THEN ids
    ELSE {r \in RowIds :
             Linked(d, Head(path), r) \cap RowsJoiningBack(d, Tail(path), ids) # {}}

\* The rows the deleted relationship filter selects at a node, none when the
\* filter is empty.
RowsOfDeletedFilter(d, deleted, path) ==
    IF _include_rows_connected_to_deleted_m2m_relationships(deleted, path) = EmptyQ
    THEN {}
    ELSE FilteredRows(d, _include_rows_connected_to_deleted_m2m_relationships(deleted, path))

\* The rows the update issued as u may touch.
RowsInScope(d, c, u) ==
    RowsJoiningBack(d, u.path, c.starting_row_id.ids)
        \cup RowsOfDeletedFilter(d, c.deleted_m2m_rels_per_link_field, u.path)

\* C8: with a starting row id (or list of ids) the root's bulk update touches
\* only the rows with that id (one of those ids), the update of a node reached
\* through a link path touches only rows joining back through the path to a
\* starting row or selected by the deleted relationship filter, and every
\* other row of the table is left unchanged.
C8_OnlyRowsInScope ==
    [][(phase = "collecting" /\ phase' = "applied"
            /\ collector.starting_row_id.kind # "none") =>
          /\ \A i \in 1..Len(issued') :
                 /\ issued'[i].rows \subseteq RowsInScope(db, collector, issued'[i])
                 /\ issued'[i].path = <<>> =>
                        issued'[i].rows \subseteq collector.starting_row_id.ids
          /\ \A f \in CellFields, r \in RowIds :
                 (\A i \in 1..Len(issued') :
                      issued'[i].table = FieldTable(f) =>
                          r \notin RowsInScope(db, collector, issued'[i]))
                     => db'.cells[f][r] = db.cells[f][r]
      ]_vars

\* A propagation from one starting row has written a column of some rows of
\* a linked table and left another row of that table as it was.
C8_Witness ==
    /\ phase = "applied"
    /\ collector.starting_row_id.kind = "int"
    /\ \E i \in 1..Len(issued) :
           /\ issued[i].path # <<>>
           /\ \E c \in DOMAIN issued[i].update_statements, r1, r2 \in RowIds :
                  /\ r1 \in issued[i].rows
                  /\ r2 \notin issued[i].rows
                  /\ db.cells[ColumnField(c)][r1] # Null
                  /\ db.cells[ColumnField(c)][r2] = Null

(***************************************************************************)
(* Properties of the field handler.                                        *)
(***************************************************************************)
\* a depends on b and b depends on c in the graph deps, directly or through
\* a link row field.
Chain(deps, a, b, c) ==
    /\ \E x \in deps : x.dependant = a /\ x.dependency = b
    /\ \E x \in deps : x.dependant = b /\ x.dependency = c

\* Field f of the fields fs is a live formula field with a valid type.
IsValidFormula(fs, f) ==
    /\ f \in FormulaFields
    /\ fs[f].status = "live"
    /\ fs[f].formula_type # "invalid"

\* Every cell of field f is null in the rows d.
AllNull(d, f) == \A r \in RowIds : d.cells[f][r] = Null

\* C5: for every chain a -> b -> c of valid formula fields a and b, trashing
\* c makes b and a invalid with the error naming c and their cells null, and
\* restoring c right after gives b and a the type, the empty error and the
\* cells they had before c was trashed.
C5_CascadeInvalidation ==
    [][/\ response'.op = "delete" =>
              \A a, b \in FormulaFields :
                  (/\ Chain(dependencies, a, b, response'.field)
                   /\ IsValidFormula(fields, a)
                   /\ IsValidFormula(fields, b)) =>
                      \A x \in {a, b} :
                          /\ fields'[x].formula_type = "invalid"
                          /\ fields'[x].error = UnknownFieldError(response'.field)
                          /\ AllNull(db', x)
       /\ (/\ response.op = "delete"
           /\ response'.op = "restore"
           /\ response'.field = response.field) =>
              \A a, b \in FormulaFields :
                  (/\ Chain(previous.dependencies, a, b, response.field)
                   /\ IsValidFormula(previous.fields, a)
                   /\ IsValidFormula(previous.fields, b)) =>
                      \A x \in {a, b} :
                          /\ fields'[x].formula_type = previous.fields[x].formula_type
                          /\ fields'[x].error = NoError
                          /\ db'.cells[x] = previous.db.cells[x]
      ]_vars

\* The field trashed last has just been restored under a chain a -> b -> it:
\* a and b were invalid naming it, and are valid again with their cells
\* recalculated.
C5_Witness ==
    /\ response.op = "restore"
    /\ \E a, b \in FormulaFields :
           /\ a # b
           /\ Chain(dependencies, a, b, response.field)
           /\ \A x \in {a, b} :
                  /\ IsValidFormula(fields, x)
                  /\ fields[x].error = NoError
                  /\ ~AllNull(db, x)
                  /\ previous.fields[x].formula_type = "invalid"
                  /\ previous.fields[x].error = UnknownFieldError(response.field)
                  /\ AllNull(previous.db, x)

\* C6: every formula field, live or trashed, has an error exactly when its
\* formula_type is invalid.
C6_ErrorIffInvalid ==
    \A f \in FormulaFields :
        fields[f].status # "absent" =>
            (fields[f].error # NoError <=> fields[f].formula_type = "invalid")

\* One formula field is invalid with its error while another is valid with
\* none, after a field was trashed.
C6_Witness ==
    /\ response.op = "delete"
    /\ \E f, g \in FormulaFields :
           /\ fields[f].status = "live"
           /\ fields[f].formula_type = "invalid"
           /\ fields[f].error # NoError
           /\ fields[g].status = "live"
           /\ fields[g].formula_type # "invalid"
           /\ fields[g].error = NoError

\* The graph deps has a cycle of direct edges.
HasDirectCycle(deps) ==
    \E x \in deps :
        /\ x.via = NoField
        /\ x.dependency # NoField
        /\ x.dependant \in DirectClosure(deps, {x.dependency})

\* The formula e references field f directly.
ReferencesDirectly(e, f) ==
    \E ref \in References(e) : ref.via = NoField /\ ref.dependency = f

\* C7: the dependency graph never holds a cycle of direct edges; a request
\* whose formula references its own field directly, or a field that depends
\* directly on its own field, is rejected with an error that is not the one
\* of an unknown field and changes neither the graph nor the fields.
C7_NoDirectCycle ==
    /\ ~HasDirectCycle(dependencies)
    /\ (/\ response.op \in {"create", "update"}
        /\ \/ ReferencesDirectly(response.formula, response.field)
           \/ \E g \in FormulaFields :
                  /\ ReferencesDirectly(response.formula, g)
                  /\ \E x \in previous.dependencies :
                         /\ x.dependant = g
                         /\ x.via = NoField
                         /\ x.dependency = response.field) =>
           /\ response.error \in {"ERROR_FIELD_SELF_REFERENCE",
                                  "ERROR_FIELD_CIRCULAR_REFERENCE"}
           /\ dependencies = previous.dependencies
           /\ fields = previous.fields

\* A request to make a field reference a field depending on it was rejected
\* while the graph holds that dependency.
C7_Witness ==
    /\ response.op = "update"
    /\ response.error = "ERROR_FIELD_CIRCULAR_REFERENCE"
    /\ \E x \in dependencies :
           /\ x.dependency = response.field
           /\ x.via = NoField
           /\ ReferencesDirectly(response.formula, x.dependant)

\* The number of formula fields stored, trashed or not.
FormulaFieldCount(fs) == Cardinality({f \in FormulaFields : fs[f].status # "absent"})

TypedArgs ==
    [i \in 1..Len(expression.args) |-> TypedExpression(fields, expression.args[i])]

IsCallOf(e, fns, n) == e.node = "call" /\ e.fn \in fns /\ Len(e.args) = n

\* totext(arg) typed as text.
ToTextOf(arg) == WithType(FunctionCall("totext", <<>>), <<arg>>, ValidType("text"))

\* C11: an equal or not_equal of two arguments of different types is typed
\* as a boolean call of the same function on totext of each argument, one of
\* two arguments of the same type as the boolean call itself; 1 = '1' is
\* true and 1 != '1' is false on every row.
C11_EqualRewrittenToText ==
    (typed # NotTyped /\ IsCallOf(expression, {"equal", "not_equal"}, 2)) =>
        /\ typed.node = "call"
        /\ typed.fn = expression.fn
        /\ typed.expression_type = ValidType("boolean")
        /\ typed.args =
               IF TypedArgs[1].expression_type.formula_type
                      # TypedArgs[2].expression_type.formula_type
               THEN <<ToTextOf(TypedArgs[1]), ToTextOf(TypedArgs[2])>>
               ELSE TypedArgs
        /\ cell_values # NoValues =>
               /\ expression.args = <<IntLiteral(1), StringLiteral(<<1>>)>> =>
                      \A r \in RowIds : cell_values[r] = Bool(expression.fn = "equal")
               /\ expression.args = <<FieldReference(22), StringLiteral(<<1>>)>> =>
                      \A r \in RowIds :
                          cell_values[r] =
                              IF db.cells[22][r] = Null THEN Null
                              ELSE Bool((db.cells[22][r] = Num(1))
                                            <=> (expression.fn = "equal"))

C11_Witness ==
    /\ expression = FunctionCall("not_equal", <<IntLiteral(1), StringLiteral(<<1>>)>>)
    /\ typed.args = <<ToTextOf(TypedArgs[1]), ToTextOf(TypedArgs[2])>>
    /\ \A r \in RowIds : cell_values[r] = Bool(FALSE)

\* The value of argument i of the typed formula on row r.
ArgValue(i, r) == EvaluateFormula(db, TypedArgs[i], r)

\* C12: the cells of a valid divide(a, b), calculated for all rows at once,
\* are NaN on the rows where b is 0 and the quotient of a and b, to five
\* decimal places, on the rows where b is another number; no row raises.
C12_DivideByZeroIsNaN ==
    (/\ IsCallOf(expression, {"divide"}, 2)
     /\ typed.expression_type = ValidType("number")
     /\ cell_values # NoValues) =>
        \A r \in RowIds :
            /\ cell_values[r] # DivisionByZero
            /\ ArgValue(2, r) = Num(0) /\ ArgValue(1, r) # Null =>
                   cell_values[r] = NaN
            /\ (/\ ArgValue(1, r).t = "num"
                /\ ArgValue(2, r).t = "num"
                /\ ArgValue(2, r) # Num(0)) =>
                   /\ cell_values[r].t = "decimal"
                   /\ 2 * (cell_values[r].v * ArgValue(2, r).v
                               - ArgValue(1, r).v * Scale) <= ArgValue(2, r).v
                   /\ 2 * (ArgValue(1, r).v * Scale
                               - cell_values[r].v * ArgValue(2, r).v) < ArgValue(2, r).v

C12_Witness ==
    /\ expression = FunctionCall("divide", <<IntLiteral(2), FieldReference(22)>>)
    /\ db.cells[22][1] = Num(0)
    /\ db.cells[22][MaxRows] = Num(2)
    /\ cell_values[1] = NaN
    /\ cell_values[MaxRows] = Decimal(Scale)

\* Whether a trim call occurs in an expression.
RECURSIVE HasTrim(_)
HasTrim(e) ==
    \/ e.node = "call" /\ e.fn = "trim"
    \/ \E i \in 1..Len(e.args) : HasTrim(e.args[i])

\* C15: a validly typed formula holds no trim call: trim(x) is typed as
\* regex_replace(x, '(^\s+|\s+$)', '') with the type of x, so calculating
\* the cells never lowers a trim call, and the cells hold x without the
\* white space around it.
C15_TrimRewritten ==
    (typed # NotTyped /\ typed.expression_type.formula_type # "invalid") =>
        /\ ~HasTrim(typed)
        /\ \A r \in RowIds : cell_values[r] # BaserowToDjangoExpressionGenerationError
        /\ IsCallOf(expression, {"trim"}, 1) =>
               /\ typed.node = "call"
               /\ typed.fn = "regex_replace"
               /\ typed.args = <<TypedArgs[1],
                                 WithType(StringLiteral(WhitespacePattern), <<>>,
                                          ValidType("text")),
                                 WithType(StringLiteral(<<>>), <<>>, ValidType("text"))>>
               /\ typed.expression_type = TypedArgs[1].expression_type
               /\ cell_values # NoValues =>
                      \A r \in RowIds :
                          cell_values[r] = Text(SelectSeq(expression.args[1].text,
                                                          LAMBDA ch : ch # Space))

C15_Witness ==
    /\ expression = FunctionCall("trim", <<StringLiteral(<<Space, 10>>)>>)
    /\ typed.fn = "regex_replace"
    /\ \A r \in RowIds : cell_values[r] = Text(<<10>>)

WhenEmptyError ==
    FormulaError("both inputs for when_empty must be the same type", "when_empty", 0)

\* C16: a when_empty whose two valid arguments have different types is
\* typed invalid with 'both inputs for when_empty must be the same type';
\* one whose arguments have the same type is typed valid with that type.
C16_WhenEmptySameType ==
    (typed # NotTyped /\ IsCallOf(expression, {"when_empty"}, 2)) =>
        typed.expression_type =
            IF TypedArgs[1].expression_type.formula_type
                   # TypedArgs[2].expression_type.formula_type
            THEN InvalidType(WhenEmptyError)
            ELSE TypedArgs[1].expression_type

\* when_empty(1, 'a') comes out of the typer as a valid number.
C16_Witness ==
    /\ expression = FunctionCall("when_empty", <<IntLiteral(1), StringLiteral(<<10>>)>>)
    /\ typed.expression_type = ValidType("number")
    /\ \A r \in RowIds : cell_values[r] = Num(1)

(***************************************************************************)
(* Properties of the row handler.                                          *)
(***************************************************************************)
\* The numbers of field target on the rows of S added up.
RECURSIVE Total(_, _)
Total(target, S) ==
    IF S = {} THEN 0
    ELSE LET x == CHOOSE y \in S : TRUE
         IN db.cells[target][x].v + Total(target, S \ {x})

\* The rows of table LinkRowTable(l) that exist and are linked to row r.
CurrentlyLinked(l, r) == Linked(db, l, r) \cap ExistingRows(LinkRowTable(l))

\* C13: after every create_rows, update_rows and delete_row request, the
\* cell of sum(lookup(link, number)) of every row is the sum of the number
\* over the rows now linked to it, or null when no row is linked: of field
\* 21 through link 11 for field 2, of field 22 through link 12 for field 4.
C13_SumOfLinkedRows ==
    /\ \A r \in existing :
           db.cells[2][r] = IF CurrentlyLinked(11, r) = {} THEN Null
                            ELSE Num(Total(21, CurrentlyLinked(11, r)))
    /\ \A r \in RowIds :
           /\ Linked(db, 12, r) \subseteq existing
           /\ db.cells[4][r] = IF CurrentlyLinked(12, r) = {} THEN Null
                               ELSE Num(Total(22, CurrentlyLinked(12, r)))

\* A row linked to every row was deleted and a sum over it and another row
\* was taken again.
C13_Witness ==
    /\ request.op = "delete"
    /\ \E r \in DOMAIN request.values :
           /\ r \notin existing
           /\ request.old[r] = RowIds
           /\ \E o \in request.old[r] : db.cells[4][o] \notin {Null, Num(22)}

(***************************************************************************)
(* Properties of the aggregation over pending joins.                       *)
(***************************************************************************)
\* The rows of an element of the aggregated array, first join first.
ElementRows(x) ==
    IF Len(joins) > 1 THEN [i \in 1..Len(joins) |-> x.ids[joins[i].join_table]]
    ELSE <<x.id>>

\* Whether the joined rows a come before the joined rows b: by the order and
\* then the id of the row of the last join, then of the join before it.
RECURSIVE ComesBefore(_, _, _)
ComesBefore(a, b, i) ==
    IF i = 0 THEN FALSE
    ELSE LET t == joins[i].join_table
         IN \/ row_order[t][a[i]] < row_order[t][b[i]]
            \/ /\ row_order[t][a[i]] = row_order[t][b[i]]
               /\ a[i] < b[i]
            \/ /\ a[i] = b[i]
               /\ ComesBefore(a, b, i - 1)

\* The relationships of link row field l as a set.
Related(l) == {through[l][i] : i \in 1..Len(through[l])}

\* The rows joined to row 1, in no order.
RowsJoined ==
    IF Len(joins) = 1 THEN {<<q[2]>> : q \in {p \in Related(11) : p[1] = 1}}
    ELSE UNION {{<<q[2], p[2]>> : p \in {y \in Related(13) : y[1] = q[2]}} :
                   q \in {x \in Related(11) : x[1] = 1}}

\* C14: the ordering keys are, for the pending joins from the last to the
\* first, the join's order and then its id; the elements of the lookup array
\* are the rows joined to the row, each once, ordered by those keys whatever
\* the order the relationships were inserted in, also after a row was moved,
\* and the join of the texts has the same order.
C14_AggregateOrder ==
    /\ Len(_calculate_aggregate_orders(joins)) = 2 * Len(joins)
    /\ \A k \in 1..Len(joins) :
           /\ _calculate_aggregate_orders(joins)[2 * k - 1]
                  = [join |-> joins[Len(joins) + 1 - k].join_path, column |-> "order"]
           /\ _calculate_aggregate_orders(joins)[2 * k]
                  = [join |-> joins[Len(joins) + 1 - k].join_path, column |-> "id"]
    /\ {ElementRows(aggregated.array.v[i]) : i \in 1..Len(aggregated.array.v)}
           = RowsJoined
    /\ \A i, j \in 1..Len(aggregated.array.v) :
           i < j => ComesBefore(ElementRows(aggregated.array.v[i]),
                                ElementRows(aggregated.array.v[j]), Len(joins))
    /\ aggregated.text =
           IF RowsJoined = {} THEN Null
           ELSE Text(Separated([i \in 1..Len(aggregated.array.v) |->
                                   aggregated.array.v[i].value], <<Space>>))

\* Rows 1 and MaxRows were related to the row in that order and a move put
\* row 1 behind row MaxRows in the lookup.
C14_Witness ==
    /\ Len(joins) = 1
    /\ through[11] = <<<<1, 1>>, <<1, MaxRows>>>>
    /\ aggregated.op = "move"
    /\ aggregated.array = Arr(<<[id |-> MaxRows, value |-> Num(MaxRows)],
                                [id |-> 1, value |-> Num(1)]>>)

(***************************************************************************)
(* Properties of rows written while fields are invalid.                    *)
(***************************************************************************)
InvalidFields == {f \in FormulaFields : fields[f].formula_type = "invalid"}

\* C17: whatever is deleted, a create_row or update_row request on table 1
\* does not raise, the row exists afterwards with the value written to its
\* number field and with the value of every formula field that is valid,
\* and the cells of an invalid formula field are null on every row.
C17_RowsWrittenWhileInvalid ==
    /\ \A f \in InvalidFields : \A r \in existing : db.cells[f][r] = Null
    /\ response.op \in {"create_row", "update_row"} =>
           /\ response.error = ""
           /\ \A r \in DOMAIN request.values :
                  /\ r \in existing
                  /\ db.cells[22][r] = request.values[r]
                  /\ \A f \in FormulaFields \ InvalidFields :
                         db.cells[f][r] =
                             EvaluateFormula(db, TypedFormula(fields, fields[f].formula), r)

\* A row was created while the link row field was in the trash and field 1
\* invalid; field 2, which reads the number field, got its value.
C17_Witness ==
    /\ response.op = "create_row"
    /\ fields[11].status = "trashed"
    /\ InvalidFields = {1}
    /\ db.cells[1][MaxRows] = Null
    /\ db.cells[2][MaxRows] = Num(2)
    /\ MaxRows \in existing

MessageFor(type, class) ==
    CASE class = "ConnectionError" /\ type = "custom_job_type" ->
             "Error message"
      [] class = "SoftTimeLimitExceeded" /\ type = "custom_job_type" ->
             "The custom_job_type job took too long and was timed out."
      [] class = "SoftTimeLimitExceeded" /\ type = "job_type" ->
             "The job_type job took too long and was timed out."
      [] class # "SoftTimeLimitExceeded" /\ type = "custom_job_type" ->
             "Something went wrong during the custom_job_type job execution."
      [] OTHER -> "Something went wrong during the job_type job execution."

\* C19: when run raises, run_async_job raises the same exception and the
\* job is failed, with the exception's text as its error and, as its human
\* readable error, the job type's message for a mapped class, the timed out
\* message for SoftTimeLimitExceeded and the generic message otherwise; a
\* job is finished only when its run has returned.
C19_RunRaised ==
    /\ task.pc = "raised" =>
          /\ job.state = JOB_FAILED
          /\ \E exception \in Exceptions :
                /\ task.raised = exception.class
                /\ job.error = exception.text
                /\ job.human_readable_error =
                       MessageFor(task.type, exception.class)
    /\ task.pc # "raised" => task.raised = ""
    /\ job.state = JOB_FINISHED => task.pc = "returned"
    /\ reader.state = JOB_FINISHED => task.pc = "returned"
    /\ reader.at = "raised" =>
          /\ reader.state = JOB_FAILED
          /\ reader.cached_state = JOB_FAILED

\* The run of a job type with a message for ConnectionError has raised one,
\* and a reader has read the job since.
C19_Witness ==
    /\ task.pc = "raised"
    /\ task.raised = "ConnectionError"
    /\ task.type = "custom_job_type"
    /\ job.state = JOB_FAILED
    /\ job.error = "connection error"
    /\ job.human_readable_error = "Error message"
    /\ reader.at = "raised"

\* The run has reported progress since it started.
HasReported == transaction.open /\ transaction.row # job

\* The cache holds an entry for the job and the entry has the key.
HasKey(name) == cache.entry /\ name \in DOMAIN cache.value

\* C20: a reader on another connection that reads the job while it runs in
\* its open transaction gets the row as it was before the transaction
\* (progress 0, pending); the cached getters give the reader the progress
\* and the state the run reported last, and the row's own value for every
\* key that the cache does not hold for the job.
C20_ReaderWhileRunning ==
    [][(reader' # reader /\ task.pc = "running") =>
          /\ transaction.open
          /\ reader'.at = "running"
          /\ reader'.progress_percentage = 0
          /\ reader'.state = JOB_PENDING
          /\ HasReported =>
                /\ reader'.cached_progress_percentage =
                       transaction.row.progress_percentage
                /\ reader'.cached_state = transaction.row.state
          /\ ~HasKey("progress_percentage") =>
                reader'.cached_progress_percentage = job.progress_percentage
          /\ ~HasKey("state") => reader'.cached_state = job.state]_vars

\* A reader has read the job after the run had reported half of its work
\* and a state of its own, and before the transaction was committed.
C20_Witness ==
    /\ task.pc = "running"
    /\ transaction.open
    /\ transaction.row.progress_percentage = 50
    /\ transaction.row.state = "test"
    /\ job.progress_percentage = 0
    /\ job.state = JOB_PENDING
    /\ reader.at = "running"
    /\ reader.progress_percentage = 0
    /\ reader.state = JOB_PENDING
    /\ reader.cached_progress_percentage = 50
    /\ reader.cached_state = "test"

\* C21: a file import with more failing rows than the maximum error count
\* ends with FileImportMaxErrorCountExceeded raised and the job failed; no
\* row of the file is in the table, the valid rows created before the
\* failing ones included, and the job's report lists exactly the maximum
\* number of failing rows.  A file with no more failing rows than that is
\* imported.
C21_ImportLimit ==
    /\ import_task.pc = "raised" =>
          /\ Cardinality(FailingRowsOf(file)) >
                 BASEROW_MAX_FILE_IMPORT_ERROR_COUNT
          /\ import_task.raised = "FileImportMaxErrorCountExceeded"
          /\ import_job.state = JOB_FAILED
          /\ import_job.error = "Too many errors"
          /\ table_rows = {}
          /\ Cardinality(import_job.failing_rows) =
                 BASEROW_MAX_FILE_IMPORT_ERROR_COUNT
          /\ import_job.failing_rows \subseteq FailingRowsOf(file)
    /\ import_task.pc = "returned" =>
          /\ Cardinality(FailingRowsOf(file)) <=
                 BASEROW_MAX_FILE_IMPORT_ERROR_COUNT
          /\ import_job.state = JOB_FINISHED
          /\ import_job.failing_rows = FailingRowsOf(file)
          /\ table_rows = DOMAIN file \ FailingRowsOf(file)
    /\ import_task.pc \notin {"raised", "returned"} =>
          /\ table_rows = {}
          /\ import_job = NewImportJob

\* The import has given up on rows that failed at their creation, after it
\* had created a valid row that comes before them in the file.
C21_Witness ==
    /\ import_task.pc = "raised"
    /\ import_job.state = JOB_FAILED
    /\ file[1] = "valid"
    /\ 1 \in import_task.created
    /\ table_rows = {}
    /\ Cardinality(import_job.failing_rows) =
           BASEROW_MAX_FILE_IMPORT_ERROR_COUNT

\* C22: clean_up_jobs fails every job that is neither finished nor failed
\* and was last updated longer ago than the soft time limit, and leaves
\* every other job, the recently updated running ones and the finished
\* ones, with the state and the updated_on it had.
C22_CleanUpJobs ==
    [][cleanups' # cleanups =>
          \A j \in JobIds :
             IF /\ job_rows[j].state \notin {JOB_FINISHED, JOB_FAILED}
                /\ now - job_rows[j].updated_on > BASEROW_JOB_SOFT_TIME_LIMIT
             THEN /\ job_rows'[j].state = JOB_FAILED
                  /\ job_rows'[j].updated_on = now
             ELSE job_rows'[j] = job_rows[j]]_vars

\* A clean up has failed one job that nothing had updated for longer than
\* the limit, next to a job that had finished as long ago.
C22_Witness ==
    /\ cleanups = 1
    /\ now > BASEROW_JOB_SOFT_TIME_LIMIT
    /\ job_rows[1] = [state |-> JOB_FAILED, updated_on |-> now]
    /\ job_rows[2] = [state |-> JOB_FINISHED, updated_on |-> 0]

\* The step is the undo, the redo, of the registered action.
IsUndo == ~action.is_undone /\ action'.is_undone
IsRedo == action.is_undone /\ ~action'.is_undone

\* C23: after CreateViewFilterActionType.do, undo deletes the filter the
\* params name, which is the created one; redo creates a filter with the
\* view, field, type and value of the do under a new id and stores that id
\* in the params, so that every further undo and redo succeeds and acts on
\* the filter created last.
C23_CreateFilterUndoRedo ==
    [][did.op = "create" =>
          LET created(id) ==
                  ViewFilter(id, ViewId, did.field, did.type, did.value)
          IN /\ action'.error = ""
             /\ IsUndo =>
                   /\ created(action.params.view_filter_id) \in view_filters
                   /\ action.params.view_filter_id = next_filter_id - 1
                   /\ view_filters' =
                          view_filters \ {created(action.params.view_filter_id)}
             /\ IsRedo =>
                   /\ \A f \in view_filters : f.id < next_filter_id
                   /\ view_filters' =
                          view_filters \cup {created(next_filter_id)}
                   /\ action'.params.view_filter_id = next_filter_id]_vars

\* The created filter has been undone and redone twice: the params name
\* the filter of the second redo, which is the one in the view.
C23_Witness ==
    /\ did.op = "create"
    /\ ~action.is_undone
    /\ action.params.view_filter_id = did.view_filter_id + 2
    /\ \E f \in view_filters : f.id = action.params.view_filter_id
    /\ ~\E f \in view_filters : f.id = did.view_filter_id

\* What an update called with the field, type and value makes of a filter.
UpdatedAs(view_filter, d) ==
    ViewFilter(view_filter.id, view_filter.view,
               IF d.field = NoField THEN view_filter.field ELSE d.field,
               IF d.type = None THEN view_filter.type ELSE d.type,
               IF d.value = None THEN view_filter.value ELSE d.value)

\* C24: after UpdateViewFilterActionType.do, undo gives the filter exactly
\* the field, type and value it had before the update and redo exactly
\* those it had after it, whichever of the three the update changed or
\* left as None; no other filter changes.
C24_UpdateFilterUndoRedo ==
    [][/\ (did.op = "" /\ did'.op = "update") =>
             /\ did'.before \in view_filters
             /\ view_filters' = (view_filters \ {did'.before})
                                    \cup {UpdatedAs(did'.before, did')}
       /\ did.op = "update" =>
             /\ action'.error = ""
             /\ IsUndo =>
                   /\ UpdatedAs(did.before, did) \in view_filters
                   /\ view_filters' =
                          (view_filters \ {UpdatedAs(did.before, did)})
                              \cup {did.before}
             /\ IsRedo =>
                   /\ did.before \in view_filters
                   /\ view_filters' =
                          (view_filters \ {did.before})
                              \cup {UpdatedAs(did.before, did)}]_vars

\* An update that named a value only, and changed it, has been undone: the
\* filter is as it was before the update.
C24_Witness ==
    /\ did.op = "update"
    /\ did.field = NoField
    /\ did.type = None
    /\ did.value # None
    /\ did.value # did.before.value
    /\ action.is_undone
    /\ did.before \in view_filters

\* C25: after DeleteViewFilterActionType.do, undo creates a filter with the
\* deleted filter's view, field, type and value under a new id and records
\* the id in the params; redo deletes exactly that filter, so that the view
\* holds neither the deleted filter nor its recreation.
C25_DeleteFilterUndoRedo ==
    [][did.op = "delete" =>
          LET recreated(id) == [did.before EXCEPT !.id = id]
          IN /\ action'.error = ""
             /\ IsUndo =>
                   /\ \A f \in view_filters : f.id < next_filter_id
                   /\ view_filters' =
                          view_filters \cup {recreated(next_filter_id)}
                   /\ action'.params.view_filter_id = next_filter_id
             /\ IsRedo =>
                   /\ recreated(action.params.view_filter_id) \in view_filters
                   /\ view_filters' =
                          view_filters
                              \ {recreated(action.params.view_filter_id)}
                   /\ \A f \in view_filters' :
                         f.id \notin {did.view_filter_id,
                                      action.params.view_filter_id}]_vars

\* A filter was deleted next to another filter of the view, the deletion
\* undone and redone: only the other filter is left.
C25_Witness ==
    /\ did.op = "delete"
    /\ ~action.is_undone
    /\ action.params.view_filter_id > did.view_filter_id
    /\ Cardinality(view_filters) = 1
    /\ \A f \in view_filters :
          f.id \notin {did.view_filter_id, action.params.view_filter_id}

\* The rows the deleted relationship filter is to add at a node whose path
\* back to the starting table is path: with deleted relationships recorded
\* under the field related to the last hop, the rows that join through the
\* hops before it to a row recorded there; no row otherwise.
RowsOfDeletedRelationships(d, deleted, path) ==
    IF /\ path # <<>>
       /\ deleted.kind # "none"
       /\ LinkRowRelatedField(path[Len(path)]) \in DOMAIN deleted.map
    THEN RowsJoiningBack(d, SubSeq(path, 1, Len(path) - 1),
                         deleted.map[LinkRowRelatedField(path[Len(path)])])
    ELSE {}

\* C26: with a starting row id, the bulk update of every node selects the
\* rows joining back to a starting row and, at a node below the root when
\* deleted relationships are recorded under the field related to the hop
\* next to the starting table, the rows joining through the hops before it
\* to one of the recorded rows; at the root, or without such an entry, the
\* deleted relationship filter adds no row.  Without a starting row id the
\* update is not filtered at all.
C26_DeletedRelationshipFilter ==
    phase \in {"applied", "sent"} =>
        \A i \in 1..Len(issued) :
           /\ issued[i].rows =
                  IF collector.starting_row_id.kind = "none"
                  THEN RowIds
                  ELSE RowsJoiningBack(db, issued[i].path,
                                       collector.starting_row_id.ids)
                           \cup RowsOfDeletedRelationships(
                                    db, collector.deleted_m2m_rels_per_link_field,
                                    issued[i].path)
           /\ collector.starting_row_id.kind # "none" =>
                  RowsOfDeletedFilter(db, collector.deleted_m2m_rels_per_link_field,
                                      issued[i].path)
                      = RowsOfDeletedRelationships(
                            db, collector.deleted_m2m_rels_per_link_field,
                            issued[i].path)

\* The update of a node two hops from the starting table has selected a
\* row only because it joins to a row that lost its relationship.
C26_Witness ==
    /\ phase = "applied"
    /\ collector.starting_row_id.kind = "int"
    /\ \E i \in 1..Len(issued) :
          /\ Len(issued[i].path) = 2
          /\ \E r \in issued[i].rows :
                /\ r \notin RowsJoiningBack(db, issued[i].path,
                                            collector.starting_row_id.ids)
                /\ r \in RowsOfDeletedRelationships(
                             db, collector.deleted_m2m_rels_per_link_field,
                             issued[i].path)

IsPrefix(a, b) == a = b \/ IsProperPrefix(a, b)

\* The position of the bulk update of the node at key in the log.
IssuedAt(key) == CHOOSE i \in 1..Len(issued) : issued[i].key = key

\* C27 as stated: execute_all traverses the tree in post-order, the bulk
\* updates of all sub paths of a node being executed before the node's own.
C27_PostOrder ==
    phase \in {"applied", "sent"} =>
        \A i, j \in 1..Len(issued) :
           IsProperPrefix(issued[i].key, issued[j].key) => j < i

\* C27: execute_all traverses the tree in pre-order: the root's bulk update
\* is the first, the update of a node is directly followed by those of the
\* nodes below it, sub path after sub path in the order in which the sub
\* paths were added, and only then by the update of any other node.
C27_PreOrder ==
    phase \in {"applied", "sent"} =>
        /\ issued[1].key = <<>>
        /\ \A i, j, k \in 1..Len(issued) :
              (i < j /\ j < k /\ IsPrefix(issued[i].key, issued[k].key))
                  => IsPrefix(issued[i].key, issued[j].key)
        /\ \A m, n \in 1..Len(Nodes) :
              (/\ m < n
               /\ Nodes[m].key # <<>>
               /\ Len(Nodes[m].key) = Len(Nodes[n].key)
               /\ SubSeq(Nodes[m].key, 1, Len(Nodes[m].key) - 1)
                      = SubSeq(Nodes[n].key, 1, Len(Nodes[n].key) - 1))
                  => IssuedAt(Nodes[m].key) < IssuedAt(Nodes[n].key)

\* A propagation has run over a root with two sub paths, both with
\* statements.
C27_Witness ==
    /\ phase = "applied"
    /\ Len(issued) = 3
    /\ issued[1].key = <<>>
    /\ Len(issued[2].key) = 1
    /\ Len(issued[3].key) = 1
    /\ DOMAIN issued[2].update_statements # {}
    /\ DOMAIN issued[3].update_statements # {}

\* The tables some node of the tree holds a statement for.
TablesWithStatements ==
    {Nodes[n].table : n \in {m \in 1..Len(Nodes) :
                                DOMAIN Nodes[m].update_statements # {}}}

WellFormedUpdate(i) ==
    LET key == issued[i].key
    IN /\ \A f \in ComputedFields :
             DbColumn(f) \in DOMAIN issued[i].update_statements =>
                FieldTable(f) = issued[i].table
       /\ IF key = <<>> THEN issued[i].table = collector.starting_table
          ELSE \E j \in 1..Len(issued), l \in LinkRowFields :
                  /\ issued[j].key = SubSeq(key, 1, Len(key) - 1)
                  /\ DbColumn(l) = key[Len(key)]
                  /\ LinkRowTable(l) = issued[j].table
                  /\ FieldTable(l) = issued[i].table

\* C29: InvalidViaPath is raised only by a call that adds a statement, while
\* the collector is still collecting: at that moment no bulk update of the
\* collector has been executed and no row has been written. Executing the
\* updates never raises it, and every update it executes is on a well-formed
\* path, the malformed ones having been refused when they were added.
C29_RaisedWhileCollecting ==
    [][/\ (raised' # "no" /\ adds' # adds) =>
             /\ phase = "collecting" /\ phase' = "collecting"
             /\ issued' = <<>>
             /\ db' = db
       /\ (phase = "collecting" /\ phase' = "applied") =>
             /\ raised' = raised
             /\ adds' = adds
             /\ \A i \in 1..Len(issued') : WellFormedUpdate(i)'
      ]_vars

\* A malformed path has aborted a propagation that had already collected a
\* statement: nothing has been executed.
C29_Witness ==
    /\ raised # "no"
    /\ phase = "collecting"
    /\ adds = MaxAdds
    /\ TablesWithStatements # {}
    /\ issued = <<>>

(***************************************************************************)
(* Properties of the dependency graph when fields and tables are deleted.  *)
(***************************************************************************)
\* The fields the step puts in the trash.
Gone == {c \in SchemaFields : fields[c].status = "live" /\ fields'[c].status = "trashed"}

\* The edges of deps from field f.
EdgesFrom(deps, f) == {x \in deps : x.dependant = f}

\* The edges of deps to or through field c.
EdgesTo(deps, c) == {x \in deps : x.dependency = c \/ x.via = c}

\* C30: when a step deletes fields (one field, or a table with its fields
\* and the link row fields leading to it), every edge from a surviving field
\* to or through a deleted one is replaced by an edge of the same dependant
\* without dependency, carrying as broken_reference_field_name the deleted
\* field (the link row field when that is deleted); every other edge of a
\* surviving field is kept as it is and no other edge appears; a deleted
\* field keeps no edge from it and none to or through it.
C30_BrokenReferences ==
    [][Gone # {} =>
          /\ \A x \in dependencies :
                IF x.dependant \in Gone THEN TRUE
                ELSE IF x.dependency \in Gone \/ x.via \in Gone
                THEN /\ x \notin dependencies'
                     /\ \E y \in EdgesFrom(dependencies', x.dependant) :
                           /\ y.dependency = NoField
                           /\ y.broken_reference_field_name =
                                  IF x.via \in Gone THEN x.via ELSE x.dependency
                ELSE x \in dependencies'
          /\ \A y \in dependencies' \ dependencies :
                /\ y.dependency = NoField
                /\ y.broken_reference_field_name \in Gone
                /\ y.dependant \notin Gone
          /\ \A c \in Gone :
                /\ EdgesFrom(dependencies', c) = {}
                /\ EdgesTo(dependencies', c) = {}
      ]_vars

\* Table 2 has been deleted while field 1 looked field 21 up through link
\* row field 11 and field 2 referred to field 1: what is left is the edge
\* from field 2 to field 1 and a broken reference of field 1 to 11.
C30_Witness ==
    /\ response.op = "delete_table"
    /\ previous.fields[21].status = "live"
    /\ fields[1].status = "live" /\ fields[2].status = "live"
    /\ fields[11].status = "trashed" /\ fields[21].status = "trashed"
    /\ dependencies =
           {[dependant |-> 2, dependency |-> 1, via |-> NoField,
             broken_reference_field_name |-> NoField],
            [dependant |-> 1, dependency |-> NoField, via |-> NoField,
             broken_reference_field_name |-> 11]}

(***************************************************************************)
(* Properties of the collector after a raise.                              *)
(***************************************************************************)
\* The fields collector c has recorded as updated.
UpdatedFields(c) ==
    UNION {{c.updated_fields_per_table[i].fields[k] :
               k \in 1..Len(c.updated_fields_per_table[i].fields)} :
           i \in 1..Len(c.updated_fields_per_table)}

\* The step is a call of add_field_with_pending_update_statement that raised.
AddRaised == adds' # adds /\ raised' # "no"

\* C38 as stated: a call of add_field_with_pending_update_statement that
\* raises InvalidViaPath leaves the collector exactly as it was.
C38_CollectorUnchangedByRaise == [][AddRaised => collector' = collector]_vars

\* C38: a call of add_field_with_pending_update_statement that raises
\* InvalidViaPath adds no statement to the collector tree and changes no
\* node that was there, but it has recorded its field as updated and the
\* nodes of the hops walked before the raise stay, without statements.  A
\* field whose only call raised is therefore still returned by
\* apply_updates_and_get_updated_fields when it is of the starting table,
\* and reported by send_additional_field_updated_signals otherwise.
C38_RaiseKeepsFieldAndNodes ==
    [][/\ AddRaised =>
             LET old == collector.update_statement_collector
                 new == collector'.update_statement_collector
             IN /\ Len(new) >= Len(old)
                /\ \A i \in 1..Len(old) : new[i] = old[i]
                /\ \A i \in (Len(old) + 1)..Len(new) :
                      /\ DOMAIN new[i].update_statements = {}
                      /\ IsProperPrefix(<<>>, new[i].key)
                /\ \E f \in ComputedFields :
                      /\ UpdatedFields(collector') = UpdatedFields(collector) \cup {f}
                      /\ f \in {_for_table(collector', FieldTable(f))[k] :
                                   k \in 1..Len(_for_table(collector', FieldTable(f)))}
       /\ (phase' = "sent" /\ adds' = 1 /\ raised' # "no") =>
             /\ Cardinality(UpdatedFields(collector')) = 1
             /\ \A f \in UpdatedFields(collector') :
                   IF FieldTable(f) = collector'.starting_table
                   THEN returned' = <<f>> /\ signals' = <<>>
                   ELSE /\ returned' = <<>>
                        /\ Len(signals') = 1
                        /\ signals'[1].field = f
      ]_vars

\* The only call of a propagation raised after it had walked one hop: the
\* node of that hop is in the tree without a statement, and the field has
\* been reported as updated.
C38_Witness ==
    /\ phase = "sent"
    /\ adds = 1
    /\ raised # "no"
    /\ Len(Nodes) = 2
    /\ \A n \in 1..Len(Nodes) : DOMAIN Nodes[n].update_statements = {}
    /\ Len(signals) = 1

(***************************************************************************)
(* Properties of the shape of the collector tree.                          *)
(***************************************************************************)
\* The hops of path that fit when followed from table t: all of them, or
\* those before the first link row field that does not link from the table
\* reached.
HopsWalked(t, path) ==
    {k \in 0..Len(path) : TableAfter(t, SubSeq(path, 1, k)) # 0}

\* C40: every node of the tree but the root is stored under the db_column
\* of its connection_here in the sub_paths of a node that is in the tree,
\* has the table of that link row field, and the node above it has that
\* field's link_row_table; no two nodes have the same place, so paths
\* beginning with the same link row fields share the nodes of those.  A call
\* raises InvalidViaPath at the first hop whose link row field does not link
\* from the table reached, after having created the nodes of the hops
\* before it and no other.
C40_TreeShape ==
    /\ tree[1].key = <<>> /\ tree[1].connection_here = NoField
    /\ \A i, j \in 1..Len(tree) : tree[i].key = tree[j].key => i = j
    /\ \A i \in 2..Len(tree) :
           LET self == tree[i]
               above == SubSeq(self.key, 1, Len(self.key) - 1)
           IN /\ self.key # <<>>
              /\ self.connection_here \in LinkRowFields
              /\ self.key[Len(self.key)] = DbColumn(self.connection_here)
              /\ self.table = FieldTable(self.connection_here)
              /\ HasNode(tree, above)
              /\ NodeAt(tree, above).table = LinkRowTable(self.connection_here)
    /\ adds > 0 =>
           LET walked == HopsWalked(before[1].table, call.path)
           IN /\ raised = "link_row_table" <=> walked # 0..Len(call.path)
              /\ AllKeys(tree) =
                     AllKeys(before) \cup {KeyOf(SubSeq(call.path, 1, k)) : k \in walked}

\* A call whose second hop does not fit raised after walking its first hop
\* to the node an earlier call had made, and made no node.
C40_Witness ==
    /\ adds = MaxAdds
    /\ raised = "link_row_table"
    /\ Len(call.path) = 2
    /\ HasNode(before, KeyOf(<<call.path[1]>>))
    /\ Len(tree) = Len(before)
    /\ Len(tree) = 3

(***************************************************************************)
(* Properties of the action log of a view.                                 *)
(***************************************************************************)
\* A filter was created and updated, both actions were undone and both
\* redone.
UndoneAndRedone == steps = <<"do", "do", "undo", "undo", "redo", "redo">>

\* C39 as stated: when a filter was created and then updated through the
\* action types, both actions were undone, the update first, and both were
\* redone, the create first, no undo or redo has raised and the view holds
\* one filter with the field, type and value of the update.
C39_RedoOfUpdateFindsFilter ==
    UndoneAndRedone =>
        /\ NoneFailed
        /\ \A i \in 1..2 : ~action_log[i].is_undone
        /\ Cardinality(view_filters) = 1
        /\ \A f \in view_filters :
              /\ f.field = action_log[2].params.new_field_id
              /\ f.type = action_log[2].params.new_filter_type
              /\ f.value = action_log[2].params.new_filter_value

\* The redo of the update has raised ViewFilterDoesNotExist: the redo of
\* the create has made a filter with a new id, the update's params name the
\* id of the filter deleted by the undo, and the view holds the filter as
\* it was created, not as it was updated.
C39_Witness ==
    /\ UndoneAndRedone
    /\ action_log[2].error = "ViewFilterDoesNotExist"
    /\ action_log[2].is_undone
    /\ action_log[1].params.view_filter_id # action_log[2].params.view_filter_id
    /\ \E f \in view_filters :
          /\ view_filters = {f}
          /\ f.id = action_log[1].params.view_filter_id
          /\ f.field = action_log[1].params.field_id
          /\ f.field # action_log[2].params.new_field_id

\* The fields the step brings back from the trash.
Back == {c \in SchemaFields : fields[c].status = "trashed" /\ fields'[c].status = "live"}

\* The fields and edges as they were when field 1 was made to look field 21
\* up through link row field 11 and field 2 was given the formula e.
Original(e) ==
    WithFormula(WithFormula(World(InitialFields, {}, InitialRows),
                            1, LookupReference(11, 21)),
                2, e)

\* C31: when a step restores fields (one field, or a table with its fields
\* and the link row fields leading to it), no edge is left that names a
\* field that is there as a broken reference, and every formula field that
\* is there and refers only to fields that are there and valid has its
\* original edges, a lookup the one to its target through its link row
\* field, none of them a broken reference, and its original type without an
\* error; when nothing is left in the trash, all edges and all fields are
\* the original ones.
C31_RestoreHeals ==
    [][Back # {} =>
          \E o \in {Original(fields[2].formula)} :
             /\ \A x \in dependencies' :
                   x.broken_reference_field_name # NoField =>
                      fields'[x.broken_reference_field_name].status # "live"
             /\ \A f \in FormulaFields :
                   (/\ fields'[f].status = "live"
                    /\ \A x \in EdgesFrom(o.dependencies, f) :
                          /\ fields'[x.dependency].status = "live"
                          /\ x.via # NoField => fields'[x.via].status = "live"
                          /\ fields'[x.dependency].formula_type # "invalid") =>
                       /\ EdgesFrom(dependencies', f) = EdgesFrom(o.dependencies, f)
                       /\ \A x \in EdgesFrom(dependencies', f) :
                             x.broken_reference_field_name = NoField
                       /\ fields'[f].formula_type = o.fields[f].formula_type
                       /\ fields'[f].formula_type # "invalid"
                       /\ fields'[f].error = NoError
             /\ (\A c \in SchemaFields : fields'[c].status = "live") =>
                   /\ dependencies' = o.dependencies
                   /\ fields' = o.fields
                   /\ \E x \in dependencies' :
                         x.dependant = 1 /\ x.dependency = 21 /\ x.via = 11
      ]_vars

\* Table 1, deleted with its two formula fields, has been restored: the
\* lookup has its edge to field 21 through link row field 11 again and the
\* formula referring to the lookup its edge to it.
C31_Witness ==
    /\ response.op = "restore_table"
    /\ previous.fields[22].status = "trashed"
    /\ previous.dependencies = {}
    /\ \A c \in SchemaFields : fields[c].status = "live"
    /\ dependencies =
           {[dependant |-> 2, dependency |-> 1, via |-> NoField,
             broken_reference_field_name |-> NoField],
            [dependant |-> 1, dependency |-> 21, via |-> 11,
             broken_reference_field_name |-> NoField]}

(***************************************************************************)
(* Properties of the deletion of a link row field.                        *)
(***************************************************************************)
\* The formula fields that are live and refer to field c.
Referring(fs, c) ==
    {f \in FormulaFields :
        /\ fs[f].status = "live"
        /\ \E ref \in References(fs[f].formula) : c \in {ref.dependency, ref.via}}

\* C32: the two fields of a link are in the trash together; when a delete
\* request of a link row field is answered, the reciprocal field is in the
\* trash too, and every formula field that referred to the reciprocal field
\* is still live, with the formula it had, and is invalid with the error
\* that it references the deleted or unknown field; and while the two
\* link row fields are in the trash a request to create a row is answered
\* without an error and the row exists.
C32_ReciprocalDeleted ==
    [][/\ \A c \in LinkRowFields \cap SchemaFields :
              fields'[c].status = fields'[LinkRowRelatedField(c)].status
       /\ (response'.op = "delete" /\ response'.field \in LinkRowFields) =>
              \E related \in {LinkRowRelatedField(response'.field)} :
                  /\ fields[related].status = "live"
                  /\ fields'[related].status = "trashed"
                  /\ \A f \in Referring(fields, related) :
                         /\ fields'[f].status = "live"
                         /\ fields'[f].formula = fields[f].formula
                         /\ fields'[f].formula_type = "invalid"
                         /\ fields'[f].error = UnknownFieldError(related)
       /\ (response'.op = "create_row" /\ fields[11].status = "trashed") =>
              /\ response'.error = ""
              /\ DOMAIN request'.values \subseteq existing'
      ]_vars

\* Link row field 12 of table 2 has been deleted while field 2 of table 1
\* referred to its reciprocal field 11: field 11 is in the trash, field 2 is
\* live and invalid, and a row has been created after that.
C32_Witness ==
    /\ response.op = "create_row"
    /\ fields[12].status = "trashed"
    /\ fields[11].status = "trashed"
    /\ fields[2].status = "live"
    /\ fields[2].formula = FieldReference(11)
    /\ fields[2].formula_type = "invalid"
    /\ fields[2].error = UnknownFieldError(11)
    /\ MaxRows \in existing

(***************************************************************************)
(* Properties of the typing of sums.                                      *)
(***************************************************************************)
\* The type of argument i of the call handed to the typer.
ArgumentType(i) == TypeExpression(fields, expression.args[i]).formula_type

Date == FunctionCall("todate", <<StringLiteral(<<1>>), StringLiteral(<<10>>)>>)
Interval == FunctionCall("date_interval", <<StringLiteral(<<10>>)>>)

\* The sums the tests refuse and those they accept.
RefusedSums ==
    {FunctionCall("add", <<StringLiteral(<<10>>), IntLiteral(2)>>),
     FunctionCall("add", <<BooleanLiteral(1), BooleanLiteral(1)>>),
     FunctionCall("add", <<Date, Date>>)}
AcceptedSums ==
    {FunctionCall("add", <<StringLiteral(<<10>>), StringLiteral(<<11>>)>>),
     FunctionCall("add", <<Date, Interval>>),
     FunctionCall("add", <<Interval, Date>>)}

\* C36: a typed sum of two valid arguments is valid exactly when the type
\* of the second argument is one of the addable types of the type of the
\* first; otherwise it is invalid with the error of the type checker for
\* argument number 2 of add, the usable types being the addable types of
\* the first: text and char for a text, none for a boolean, date_interval
\* for a date.  'a' + 2, true + true and date + date are refused, 'a' +
\* 'b', date + date_interval and date_interval + date are accepted.
C36_AddableTypes ==
    typed # NotTyped =>
        /\ typed.expression_type.formula_type # "invalid"
               <=> ArgumentType(2) \in addable_types(ArgumentType(1))
        /\ typed.expression_type.formula_type = "invalid" =>
               /\ typed.expression_type.error = FormulaError("arg_type", "add", 2)
               /\ ArgTypesGiven("add", 2, TypesOf(typed.args))
                      = addable_types(ArgumentType(1))
        /\ expression \in RefusedSums =>
               typed.expression_type.formula_type = "invalid"
        /\ expression \in AcceptedSums =>
               typed.expression_type.formula_type # "invalid"
        /\ expression.args[1] = StringLiteral(<<10>>) =>
               ArgTypesGiven("add", 2, TypesOf(typed.args)) = {"text", "char"}
        /\ expression.args[1] = BooleanLiteral(1) =>
               ArgTypesGiven("add", 2, TypesOf(typed.args)) = {}
        /\ expression.args[1] = Date =>
               ArgTypesGiven("add", 2, TypesOf(typed.args)) = {"date_interval"}

\* A number has been added to a text and the sum refused for its second
\* argument.
C36_Witness ==
    /\ expression = FunctionCall("add", <<StringLiteral(<<10>>), IntLiteral(2)>>)
    /\ typed.expression_type = InvalidType(FormulaError("arg_type", "add", 2))
    /\ ArgumentType(1) = "text"
    /\ ArgumentType(2) = "number"

(***************************************************************************)
(* Properties of the propagation through a diamond.                       *)
(***************************************************************************)
\* The places of the bulk updates issued on table t.
IssuedOn(t) == {i \in 1..Len(issued) : issued[i].table = t /\ DOMAIN issued[i].update_statements # {}}

\* The sum of field 22 over the rows of table 1 a row of table 2 is linked to.
Middle(r) == SumOf([x \in RowIds |-> db.cells[22][x].v], Linked(db, 12, r))

\* C33: after every change of a value of table 1, the bulk update of table
\* 2 has been issued before every bulk update of table 3, every row of
\* table 2 holds the sum of the values of table 1 as they are now, and
\* every row of table 3 holds the sum over its two links of those sums, as
\* they are now.
C33_DiamondOrder ==
    /\ \A i \in IssuedOn(2), j \in IssuedOn(3) : i < j
    /\ \A r \in RowIds :
           /\ db.cells[4][r] = IF Linked(db, 12, r) = {} THEN Null ELSE Num(Middle(r))
           /\ db.cells[5][r] =
                  Num(SumOf([x \in RowIds |-> Middle(x)], Linked(db, 14, r))
                      + SumOf([x \in RowIds |-> Middle(x)], Linked(db, 15, r)))

\* The value of row 1 of table 1 has been changed to MaxValue; row 1 of
\* table 3 reaches it through both of its links and holds it twice.
C33_Witness ==
    /\ request.op = "update"
    /\ request.values = [x \in {1} |-> Num(MaxValue)]
    /\ Linked(db, 12, 1) = {1}
    /\ Linked(db, 14, 1) = {1}
    /\ Linked(db, 15, 1) = {1}
    /\ db.cells[4][1] = Num(MaxValue)
    /\ db.cells[5][1] = Num(2 * MaxValue)
    /\ IssuedOn(2) # {}
    /\ Cardinality(IssuedOn(3)) = 2

(***************************************************************************)
(* Properties of the elements of the aggregated array.                    *)
(***************************************************************************)
\* The joined rows of row 1 in the order of the aggregate ordering keys.
OrderedJoinedRows ==
    OrderedRows(joins, row_order, _calculate_aggregate_orders(joins),
                PendingJoinRows(through, joins, 1))

\* C37: the aggregated array has one element for every joined row, in the
\* order of the aggregate ordering keys, and is the empty array when no row
\* is joined; with one pending join an element holds the value and, as id,
\* the row of the join; with more than one it holds the value and ids with
\* one row id for every pending join, the row joined at that hop.
C37_OneIdPerHop ==
    /\ aggregated.array.t = "arr"
    /\ Len(aggregated.array.v) = Len(OrderedJoinedRows)
    /\ \A i \in 1..Len(aggregated.array.v) :
           \E x \in {aggregated.array.v[i]}, rows \in {OrderedJoinedRows[i]} :
               /\ x.value = db.cells[TargetField(joins)][rows[Len(rows)]]
               /\ IF Len(joins) = 1
                  THEN /\ DOMAIN x = {"id", "value"}
                       /\ x.id = rows[1]
                  ELSE /\ DOMAIN x = {"ids", "value"}
                       /\ Cardinality(DOMAIN x.ids) = Len(joins)
                       /\ \A k \in 1..Len(joins) : x.ids[joins[k].join_table] = rows[k]

\* Row 1 is joined through rows 1 and MaxRows of table 2 to a row of table
\* 3 and back to row 1 of table 2: the two elements hold two ids for three
\* hops, and the same ids.
C37_Witness ==
    /\ Len(joins) = 3
    /\ Len(aggregated.array.v) > 1
    /\ \E i, j \in 1..Len(aggregated.array.v) :
           /\ i # j
           /\ OrderedJoinedRows[i] # OrderedJoinedRows[j]
           /\ Cardinality(DOMAIN aggregated.array.v[i].ids) = 2
           /\ aggregated.array.v[i].ids = aggregated.array.v[j].ids

(***************************************************************************)
(* Properties of the lowering of lookups.                                 *)
(***************************************************************************)
\* Whether the step lowers the formula.
Lowers == Len(outcomes') = Len(outcomes) + 1 /\ outcomes'[Len(outcomes')].op = "lower"

\* Whether call n has the pending joins of its links, each path being the
\* path of parent followed by the links up to that one, and behind them the
\* pending joins below.
JoinsOfLinks(calls, n, parent, below) ==
    /\ Len(calls[n].pending_joins) = Len(calls[n].links) + Len(below)
    /\ \A i \in 1..Len(calls[n].links) :
           /\ calls[n].pending_joins[i].join_path
                  = parent \o SubSeq(calls[n].links, 1, i)
           /\ calls[n].pending_joins[i].join_table = LinkRowTable(calls[n].links[i])
    /\ \A i \in 1..Len(below) :
           calls[n].pending_joins[Len(calls[n].links) + i] = below[i]

\* C35: when the formula has been lowered, the db_lookup call holds one
\* pending join for each of its links, the path of the i-th being the first
\* i links (its parent has no pending join), followed by the pending joins
\* of its target; a db_lookup call that is the target holds one for each of
\* its links, the path of each starting with the path of the last join of
\* the call above; the subquery has got a relation for each of them, and
\* the call lowered with the subquery has no pending join and is not many.
C35_PendingJoins ==
    [][Lowers =>
          /\ IF func_calls'[2].target_call \notin DOMAIN func_calls'
             THEN JoinsOfLinks(func_calls', 2, <<>>, <<>>)
             ELSE /\ JoinsOfLinks(func_calls', 2, <<>>, func_calls'[3].pending_joins)
                  /\ JoinsOfLinks(func_calls', 3, func_calls'[2].links, <<>>)
          /\ outcomes'[Len(outcomes')].result.annotations = func_calls'[2].pending_joins
          /\ func_calls'[1].pending_joins = <<>>
          /\ func_calls'[1].many = FALSE
      ]_vars

\* A lookup through 11 of a lookup through 13 has been lowered under an
\* aggregate call that was many: the joins are 11 and 11, 13.
C35_Witness ==
    /\ outcomes # <<>>
    /\ outcomes[Len(outcomes)].op = "lower"
    /\ Len(func_calls) = 3
    /\ func_calls[2].pending_joins = <<PendingJoin(<<11>>), PendingJoin(<<11, 13>>)>>
    /\ func_calls[3].pending_joins = <<PendingJoin(<<11, 13>>)>>
    /\ func_calls[1].pending_joins = <<>>
    /\ ~func_calls[1].many

\* C34: whatever typings and lowerings of the formula came before, every
\* typing gives the same type without an error and every lowering the same
\* expression.
C34_SameOutcome ==
    \A i, j \in 1..Len(outcomes) :
        outcomes[i].op = outcomes[j].op => outcomes[i].result = outcomes[j].result

\* The formula has been lowered, typed and lowered again.
C34_Witness ==
    /\ Len(outcomes) = 3
    /\ outcomes[1].op = "lower"
    /\ outcomes[2].op = "type"
    /\ outcomes[3].op = "lower"
    /\ outcomes[1].result.annotations # <<>>
    /\ outcomes[3].result = outcomes[1].result

====
